---------------------------- MODULE Spec2Model ----------------------------
(***************************************************************************)
(* A model of the dumq-amqp client library: links (Link, Sender,           *)
(* Receiver), sessions and connections, each as the object the caller      *)
(* holds and the methods the caller may invoke on it.  Every method is one *)
(* operator from the object (and the environment's outcome, where the      *)
(* method does I/O) to the object after the call and the call's result;    *)
(* every action applies one method and records the call in `ret`.          *)
(***************************************************************************)
EXTENDS Integers, Sequences, FiniteSets, TLC

(***************************************************************************)
(* Bounds of the model.                                                    *)
(***************************************************************************)
\* Message identities handed to send / simulate_receive: 1..MaxMsg.
MaxMsg == 2
\* Largest credit a sender or receiver is granted in the model.
MaxCredit == 3
\* Largest amount passed to one add_credit call.
MaxGrant == 2
\* Number of successful sends explored on one sender.
MaxDeliveries == 3
\* Number of messages delivered to one receiver.
MaxQueue == 3
\* Number of links created on one session.
MaxLinks == 3
\* Number of sessions created on one connection.
MaxSessions == 3
\* Number of frames and messages written on one network connection.
MaxFrames == 2
\* Highest channel number given to send_frame / send_message.
MaxChannel == 1
\* Number of protocol headers written on one network connection (a failed
\* negotiate_protocol may be called again and writes the header again).
MaxHeaders == 2
\* Number of turns of the keep-alive task that are followed.
MaxTicks == 1
\* Number of next_channel() calls followed on one network connection: one
\* full round of the counter and a few calls more.
MaxChannelCalls == 65540

\* Number of values written to one encoder.
MaxValues == 1
\* Number of values written to one encoder that is decoded as a stream.
MaxStream == 3
\* Length of the octet sequences built from TestOctets for a decoder.
MaxOctets == 2

\* The number of values of a u16.
U16 == 65536
\* The longest payload, and the most items, with a one-octet length or count.
U8Max == 255
\* The most entries of a map with a one-octet count.
Map8Max == 127

Msgs == 1..MaxMsg

VARIABLES
    kind,       \* which object the caller constructed and drives
    link,       \* a link::Link
    sender,     \* a link::Sender
    receiver,   \* a link::Receiver
    sent,       \* history: number of sends that returned Ok on `sender`
    credited,   \* history: sum of the amounts given to add_credit on `sender`
    enqueued,   \* history: messages given to simulate_receive, in order
    consumed,   \* history: messages returned by receive(), in order
    session,    \* a session::Session
    endpoints,  \* the Senders / Receivers create_sender / create_receiver returned
    granted,    \* history: for each successful create_sender / create_receiver,
                \* in order, the keys it added to the session's link table
    conn,       \* a connection::Connection
    handles,    \* the connection::Sessions create_session returned
    net,        \* a network::NetworkConnection
    dropped,    \* whether `net` was dropped
    tasks,      \* the keep-alive tasks the runtime holds: spawned, not aborted
    spawned,    \* history: number of keep-alive tasks spawned so far
    ticks,      \* history: number of turns the keep-alive tasks have taken
    wire,       \* history: what was written to the transport, in order
    calls,      \* history: number of next_channel() calls
    encoder,    \* the buffer of a codec::Encoder
    encoded,    \* history: the values given to encode_value, in order
    decoder,    \* the buffer of a codec::Decoder
    decoded,    \* history: what each decode_value call returned, in order
    stage,      \* where the caller of the codec is: encoding, decoding, panicked
    frame,      \* history: the transport::Frame given to Frame::encode
    bytes,      \* the octets Frame::encode returned / given to Frame::decode
    parsed,     \* the transport::Frame that Frame::decode returned, if it did
    peer,       \* history: the protocol header the peer answered with
    condition,  \* a condition::AmqpCondition
    text,       \* the string as_str() returned for `condition`
    ret         \* the last call: its name, its result, the returned value and
                \* the outcome of the I/O it did

linkVars == <<link, sender, receiver, sent, credited, enqueued, consumed>>
sessionVars == <<session, endpoints, granted>>
connVars == <<conn, handles>>
netVars == <<net, dropped, tasks, spawned, ticks, wire, calls>>

codecVars == <<encoder, encoded, decoder, decoded, stage>>
transportVars == <<frame, bytes, parsed, peer>>
conditionVars == <<condition, text>>

vars == <<kind, linkVars, sessionVars, connVars, netVars, codecVars, transportVars,
          conditionVars, ret>>

\* The result of a call: the object after it, Ok or the AmqpError kind, and
\* the value carried by Ok (0 when it carries none).
Result(o, r, v) == [obj |-> o, res |-> r, val |-> v]

\* The record of a call that did I/O with outcome io, and of one that did none.
CallIo(op, r, io) == [op |-> op, res |-> r.res, val |-> r.val, io |-> io]

Call(op, r) == CallIo(op, r, "none")

(***************************************************************************)
(* link::Link                                                              *)
(***************************************************************************)
\* config: of the LinkConfig, the sender settle mode; LinkConfig::default()
\* has Mixed.
SenderSettleModes == {"Unsettled", "Settled", "Mixed"}

LinkConfig_default == [sender_settle_mode |-> "Mixed"]

Link_new == [state |-> "Detached", handle |-> 0, config |-> LinkConfig_default]

\* A plausible slip: attach without the state check.
Link_attach_Unchecked(l) ==
    Result([l EXCEPT !.state = "Attached"], "Ok", 0)

Link_attach(l) ==
    IF l.state # "Detached"
    THEN Result(l, "InvalidState", 0)
    ELSE Result([l EXCEPT !.state = "Attached"], "Ok", 0)

Link_detach(l) ==
    IF l.state # "Attached"
    THEN Result(l, "InvalidState", 0)
    ELSE Result([l EXCEPT !.state = "Detached"], "Ok", 0)

(***************************************************************************)
(* link::Sender                                                            *)
(***************************************************************************)
NoDeliveries == [id \in {} |-> 0]

Sender_new ==
    [link |-> Link_new, credit |-> 0,
     pending_deliveries |-> NoDeliveries, next_delivery_id |-> 1]

Sender_attach(s) ==
    LET r == Link_attach(s.link)
    IN  Result([s EXCEPT !.link = r.obj], r.res, r.val)

Sender_detach(s) ==
    LET r == Link_detach(s.link)
    IN  Result([s EXCEPT !.link = r.obj], r.res, r.val)

\* A plausible slip: the credit check left out.
Sender_send_NoCreditGate(s, message) ==
    IF s.link.state # "Attached"
    THEN Result(s, "InvalidState", 0)
    ELSE Result([s EXCEPT !.next_delivery_id = @ + 1,
                          !.pending_deliveries = (s.next_delivery_id :> message) @@ @,
                          !.credit = IF @ = 0 THEN 0 ELSE @ - 1],
                "Ok", s.next_delivery_id)

\* A plausible slip: the id is consumed before the checks.
Sender_send_IdFirst(s, message) ==
    LET t == [s EXCEPT !.next_delivery_id = @ + 1]
    IN  IF s.link.state # "Attached"
        THEN Result(t, "InvalidState", 0)
        ELSE IF s.credit = 0
        THEN Result(t, "Link", 0)
        ELSE Result([t EXCEPT !.pending_deliveries = (s.next_delivery_id :> message) @@ @,
                              !.credit = @ - 1],
                    "Ok", s.next_delivery_id)

\* A plausible slip: the credit check before the state check.
Sender_send_CreditFirst(s, message) ==
    IF s.credit = 0
    THEN Result(s, "Link", 0)
    ELSE IF s.link.state # "Attached"
    THEN Result(s, "InvalidState", 0)
    ELSE Result([s EXCEPT !.next_delivery_id = @ + 1,
                          !.pending_deliveries = (s.next_delivery_id :> message) @@ @,
                          !.credit = @ - 1],
                "Ok", s.next_delivery_id)

Sender_send(s, message) ==
    IF s.link.state # "Attached"
    THEN Result(s, "InvalidState", 0)
    ELSE IF s.credit = 0
    THEN Result(s, "Link", 0)
    ELSE Result([s EXCEPT !.next_delivery_id = @ + 1,
                          !.pending_deliveries = (s.next_delivery_id :> message) @@ @,
                          !.credit = @ - 1],
                "Ok", s.next_delivery_id)

Sender_add_credit(s, credit) ==
    Result([s EXCEPT !.credit = @ + credit], "Ok", 0)

(***************************************************************************)
(* link::Receiver                                                          *)
(***************************************************************************)
Receiver_new ==
    [link |-> Link_new, credit |-> 0, message_queue |-> <<>>, delivery_count |-> 0]

Receiver_attach(r) ==
    LET a == Link_attach(r.link)
    IN  Result([r EXCEPT !.link = a.obj], a.res, a.val)

\* A plausible slip: detach drops the messages still queued and the credit.
Receiver_detach_Flushing(r) ==
    LET a == Link_detach(r.link)
    IN  IF a.res # "Ok"
        THEN Result(r, a.res, a.val)
        ELSE Result([r EXCEPT !.link = a.obj, !.message_queue = <<>>, !.credit = 0],
                    a.res, a.val)

Receiver_detach(r) ==
    LET a == Link_detach(r.link)
    IN  Result([r EXCEPT !.link = a.obj], a.res, a.val)

\* A plausible slip: the count is taken on consumption as well.
Receiver_receive_Counting(r) ==
    IF r.link.state # "Attached"
    THEN Result(r, "InvalidState", 0)
    ELSE IF r.message_queue = <<>>
    THEN Result(r, "Ok", 0)
    ELSE Result([r EXCEPT !.message_queue = Tail(@), !.delivery_count = @ + 1],
                "Ok", Head(r.message_queue))

\* A plausible slip: the newest message is taken (pop) instead of the oldest.
Receiver_receive_Lifo(r) ==
    IF r.link.state # "Attached"
    THEN Result(r, "InvalidState", 0)
    ELSE IF r.message_queue = <<>>
    THEN Result(r, "Ok", 0)
    ELSE Result([r EXCEPT !.message_queue = SubSeq(@, 1, Len(@) - 1)],
                "Ok", r.message_queue[Len(r.message_queue)])

\* receive(): Ok(None) is val 0, Ok(Some(m)) is val m; Vec::remove(0) takes
\* the first element and shifts the rest down.
Receiver_receive(r) ==
    IF r.link.state # "Attached"
    THEN Result(r, "InvalidState", 0)
    ELSE IF r.message_queue = <<>>
    THEN Result(r, "Ok", 0)
    ELSE Result([r EXCEPT !.message_queue = Tail(@)], "Ok", Head(r.message_queue))

Receiver_add_credit(r, credit) ==
    Result([r EXCEPT !.credit = @ + credit], "Ok", 0)

\* A plausible slip: the arrival is queued and not counted.
Receiver_simulate_receive_NoCount(r, message) ==
    Result([r EXCEPT !.message_queue = Append(@, message)], "Ok", 0)

Receiver_simulate_receive(r, message) ==
    Result([r EXCEPT !.message_queue = Append(@, message),
                     !.delivery_count = @ + 1], "Ok", 0)

(***************************************************************************)
(* session::Session                                                        *)
(***************************************************************************)
\* The orders in which a HashMap's values may be visited: every enumeration
\* of its keys.
Orders(keys) ==
    { o \in [1..Cardinality(keys) -> keys] : \A k \in keys : \E i \in DOMAIN o : o[i] = k }

NoLinks == [h \in {} |-> Link_new]

\* The keys of `links` are the decimal strings of the handles; to_string is
\* one-to-one on u32, so the handle itself stands for its string.
Session_new(channel) ==
    [state |-> "Ended", channel |-> channel, links |-> NoLinks, next_handle |-> 0]

\* A plausible slip: begin without the state check.
Session_begin_Unchecked(s) ==
    Result([s EXCEPT !.state = "Active"], "Ok", 0)

Session_begin(s) ==
    IF s.state # "Ended"
    THEN Result(s, "InvalidState", 0)
    ELSE Result([s EXCEPT !.state = "Active"], "Ok", 0)

\* `for link in links.values_mut() { link.detach().await?; }` visiting the
\* links in the order ord: the first failing detach ends the loop.
RECURSIVE DetachLinks(_, _)
DetachLinks(links, ord) ==
    IF ord = <<>>
    THEN [links |-> links, res |-> "Ok"]
    ELSE LET r == Link_detach(links[Head(ord)])
             after == [links EXCEPT ![Head(ord)] = r.obj]
         IN  IF r.res # "Ok"
             THEN [links |-> after, res |-> r.res]
             ELSE DetachLinks(after, Tail(ord))

Session_end(s, ord) ==
    IF s.state # "Active"
    THEN Result(s, "InvalidState", 0)
    ELSE LET d == DetachLinks(s.links, ord)
         IN  IF d.res # "Ok"
             THEN Result([s EXCEPT !.state = "Ending", !.links = d.links], d.res, 0)
             ELSE Result([s EXCEPT !.state = "Ended", !.links = NoLinks], "Ok", 0)

\* A plausible slip: create_sender without the state check.
Session_create_sender_Unchecked(s) ==
    [obj |-> [s EXCEPT !.next_handle = @ + 1,
                       !.links = (s.next_handle :> Link_new) @@ @],
     res |-> "Ok", val |-> 0, out |-> Sender_new]

\* A plausible slip: the handle counter is not advanced, so the next link is
\* registered under the same key.
Session_create_sender_SameHandle(s) ==
    IF s.state # "Active"
    THEN [obj |-> s, res |-> "InvalidState", val |-> 0, out |-> Sender_new]
    ELSE [obj |-> [s EXCEPT !.links = (s.next_handle :> Link_new) @@ @],
          res |-> "Ok", val |-> 0, out |-> Sender_new]

\* A plausible slip: the session attaches the link it registers.
Session_create_sender_RegistersAttached(s) ==
    IF s.state # "Active"
    THEN [obj |-> s, res |-> "InvalidState", val |-> 0, out |-> Sender_new]
    ELSE [obj |-> [s EXCEPT !.next_handle = @ + 1,
                            !.links = (s.next_handle :> Link_attach(Link_new).obj) @@ @],
          res |-> "Ok", val |-> 0, out |-> Sender_new]

\* create_sender / create_receiver: `out` is the Sender / Receiver returned,
\* a new object beside the Link registered under the handle.
Session_create_sender(s) ==
    IF s.state # "Active"
    THEN [obj |-> s, res |-> "InvalidState", val |-> 0, out |-> Sender_new]
    ELSE [obj |-> [s EXCEPT !.next_handle = @ + 1,
                            !.links = (s.next_handle :> Link_new) @@ @],
          res |-> "Ok", val |-> 0, out |-> Sender_new]

Session_create_receiver(s) ==
    IF s.state # "Active"
    THEN [obj |-> s, res |-> "InvalidState", val |-> 0, out |-> Receiver_new]
    ELSE [obj |-> [s EXCEPT !.next_handle = @ + 1,
                            !.links = (s.next_handle :> Link_new) @@ @],
          res |-> "Ok", val |-> 0, out |-> Receiver_new]

Session_link_count(s) == Cardinality(DOMAIN s.links)

(***************************************************************************)
(* connection::Session (the session type a Connection registers and        *)
(* returns) and connection::Connection                                     *)
(***************************************************************************)
ConnSession_new(channel) == [channel |-> channel, state |-> "Closed"]

ConnSession_open(s) ==
    IF s.state # "Closed"
    THEN Result(s, "InvalidState", 0)
    ELSE Result([s EXCEPT !.state = "Open"], "Ok", 0)

ConnSession_close(s) ==
    IF s.state # "Open"
    THEN Result(s, "InvalidState", 0)
    ELSE Result([s EXCEPT !.state = "Closed"], "Ok", 0)

NoSessions == [c \in {} |-> ConnSession_new(0)]

\* stream: TRUE for Some(TcpStream), FALSE for None.
\* config: of the ConnectionConfig, channel_max; ConnectionConfig::default()
\* has 1000.
ConnectionConfig_default == [channel_max |-> 1000]

Connection_new ==
    [state |-> "Closed", stream |-> FALSE, next_channel |-> 0, sessions |-> NoSessions,
     config |-> ConnectionConfig_default]

\* What the network may do to open(): the connect times out or is refused,
\* or the stream is connected and writing the protocol header fails or works.
OpenOutcomes == {"ok", "timeout", "refused", "write_failed"}

\* What the network may do to close(): the stream's shutdown fails or works.
CloseOutcomes == {"ok", "shutdown_failed"}

\* A plausible slip: open without the state check.
Connection_open_Unchecked(c, io) ==
    IF io = "timeout"
    THEN Result([c EXCEPT !.state = "Opening"], "Timeout", 0)
    ELSE IF io = "refused"
    THEN Result([c EXCEPT !.state = "Opening"], "Connection", 0)
    ELSE IF io = "write_failed"
    THEN Result([c EXCEPT !.state = "Open", !.stream = TRUE], "Connection", 0)
    ELSE Result([c EXCEPT !.state = "Open", !.stream = TRUE], "Ok", 0)

Connection_open(c, io) ==
    IF c.state # "Closed"
    THEN Result(c, "InvalidState", 0)
    ELSE IF io = "timeout"
    THEN Result([c EXCEPT !.state = "Opening"], "Timeout", 0)
    ELSE IF io = "refused"
    THEN Result([c EXCEPT !.state = "Opening"], "Connection", 0)
    ELSE IF io = "write_failed"
    THEN Result([c EXCEPT !.state = "Open", !.stream = TRUE], "Connection", 0)
    ELSE Result([c EXCEPT !.state = "Open", !.stream = TRUE], "Ok", 0)

\* `for session in sessions.values_mut() { session.close().await?; }`
\* visiting the sessions in the order ord.
RECURSIVE CloseSessions(_, _)
CloseSessions(sessions, ord) ==
    IF ord = <<>>
    THEN [sessions |-> sessions, res |-> "Ok"]
    ELSE LET r == ConnSession_close(sessions[Head(ord)])
             after == [sessions EXCEPT ![Head(ord)] = r.obj]
         IN  IF r.res # "Ok"
             THEN [sessions |-> after, res |-> r.res]
             ELSE CloseSessions(after, Tail(ord))

Connection_close(c, ord, io) ==
    IF c.state # "Open"
    THEN Result(c, "InvalidState", 0)
    ELSE LET d == CloseSessions(c.sessions, ord)
         IN  IF d.res # "Ok"
             THEN Result([c EXCEPT !.state = "Closing", !.sessions = d.sessions],
                         d.res, 0)
             ELSE IF c.stream /\ io = "shutdown_failed"
             THEN Result([c EXCEPT !.state = "Closing", !.sessions = NoSessions,
                                   !.stream = FALSE], "Connection", 0)
             ELSE Result([c EXCEPT !.state = "Closed", !.sessions = NoSessions,
                                   !.stream = FALSE], "Ok", 0)

\* A plausible slip: the counter is advanced before the channel is taken, so
\* that channel 0 is never handed out.
Connection_create_session_FromOne(c) ==
    IF c.state # "Open"
    THEN [obj |-> c, res |-> "InvalidState", val |-> 0,
          out |-> ConnSession_new(0)]
    ELSE [obj |-> [c EXCEPT !.next_channel = @ + 1,
                            !.sessions = (c.next_channel + 1 :> ConnSession_new(c.next_channel + 1)) @@ @],
          res |-> "Ok", val |-> c.next_channel + 1,
          out |-> ConnSession_new(c.next_channel + 1)]

\* create_session: `out` is the Session returned, of which the connection
\* registers a clone under the channel; val is the channel.
Connection_create_session(c) ==
    IF c.state # "Open"
    THEN [obj |-> c, res |-> "InvalidState", val |-> 0,
          out |-> ConnSession_new(0)]
    ELSE [obj |-> [c EXCEPT !.next_channel = @ + 1,
                            !.sessions = (c.next_channel :> ConnSession_new(c.next_channel)) @@ @],
          res |-> "Ok", val |-> c.next_channel,
          out |-> ConnSession_new(c.next_channel)]

(***************************************************************************)
(* network::NetworkConnection                                              *)
(***************************************************************************)
\* transport: TRUE for Some(Transport), FALSE for None.  keep_alive_handle:
\* 0 for None, otherwise the id of the task the JoinHandle stands for.
NetworkConnection_new ==
    [state |-> "Disconnected", transport |-> FALSE, next_channel |-> 0,
     keep_alive_handle |-> 0]

\* The result of a NetworkConnection call: besides the object, the result and
\* the value, what the call wrote to the transport, the tasks it spawned and
\* the tasks it aborted.
NetResult(o, r, v, wrote, spawn, abort) ==
    [obj |-> o, res |-> r, val |-> v, wrote |-> wrote, spawn |-> spawn, abort |-> abort]

NetFail(o, r) == NetResult(o, r, 0, <<>>, {}, {})

\* What is written: the protocol header, a frame (Open, Close, the caller's
\* frame, an encoded message) on a channel, and the shutdown of the stream.
Written(what, channel) == [what |-> what, channel |-> channel]

\* The task a JoinHandle aborts.
Aborted(handle) == IF handle = 0 THEN {} ELSE {handle}

ConnectOutcomes == {"ok", "timeout", "refused"}

NetworkConnection_connect(n, io) ==
    IF n.state # "Disconnected"
    THEN NetFail(n, "Connection")
    ELSE IF io = "timeout"
    THEN NetFail([n EXCEPT !.state = "Connecting"], "Timeout")
    ELSE IF io = "refused"
    THEN NetFail([n EXCEPT !.state = "Connecting"], "Transport")
    ELSE NetResult([n EXCEPT !.state = "Connected", !.transport = TRUE],
                   "Ok", 0, <<>>, {}, {})

NegotiateOutcomes == {"ok", "header_failed", "open_failed"}

\* transport::constants, and the headers a peer may answer with: the AMQP
\* header, the SASL header, and the header of another protocol version.
AMQP_HEADER == <<65, 77, 81, 80, 0, 1, 0, 0>>
SASL_HEADER == <<65, 77, 81, 80, 3, 1, 0, 0>>

PeerHeaders == {AMQP_HEADER, SASL_HEADER, <<65, 77, 81, 80, 0, 0, 9, 1>>}

NegotiateAmqpOutcomes == {"ok", "send_failed", "receive_failed"}

\* ProtocolNegotiator::negotiate_amqp on a transport whose peer answers with
\* `response`.
ProtocolNegotiator_negotiate_amqp(io, response) ==
    IF io = "send_failed"
    THEN NetFail(0, "Transport")
    ELSE IF io = "receive_failed"
    THEN NetResult(0, "Transport", 0, <<Written("header", 0)>>, {}, {})
    ELSE IF response # AMQP_HEADER
    THEN NetResult(0, "Protocol", 0, <<Written("header", 0)>>, {}, {})
    ELSE NetResult(0, "Ok", 0, <<Written("header", 0)>>, {}, {})

\* negotiate_protocol; tid is the id the runtime gives the spawned task.
NetworkConnection_negotiate_protocol(n, io, tid) ==
    IF n.state # "Connected"
    THEN NetFail(n, "Connection")
    ELSE IF ~n.transport
    THEN NetFail(n, "Connection")
    ELSE IF io = "header_failed"
    THEN NetFail(n, "Transport")
    ELSE IF io = "open_failed"
    THEN NetResult(n, "Transport", 0, <<Written("header", 0)>>, {}, {})
    ELSE NetResult([n EXCEPT !.state = "Ready", !.keep_alive_handle = tid],
                   "Ok", 0, <<Written("header", 0), Written("open", 0)>>,
                   {tid}, {})

FrameOutcomes == {"ok", "failed"}

\* A plausible slip: send_frame without the Ready check.
NetworkConnection_send_frame_NoReadyCheck(n, channel, io) ==
    IF ~n.transport
    THEN NetFail(n, "Connection")
    ELSE IF io = "failed"
    THEN NetFail(n, "Transport")
    ELSE NetResult(n, "Ok", 0, <<Written("frame", channel)>>, {}, {})

NetworkConnection_send_frame(n, channel, io) ==
    IF n.state # "Ready"
    THEN NetFail(n, "Connection")
    ELSE IF ~n.transport
    THEN NetFail(n, "Connection")
    ELSE IF io = "failed"
    THEN NetFail(n, "Transport")
    ELSE NetResult(n, "Ok", 0, <<Written("frame", channel)>>, {}, {})

\* receive_frame; val is 1 for the frame read.
NetworkConnection_receive_frame(n, io) ==
    IF n.state # "Ready"
    THEN NetFail(n, "Connection")
    ELSE IF ~n.transport
    THEN NetFail(n, "Connection")
    ELSE IF io = "failed"
    THEN NetFail(n, "Transport")
    ELSE NetResult(n, "Ok", 1, <<>>, {}, {})

\* send_message encodes the message before anything else; encodable is FALSE
\* for a message encode_message refuses (a Multiple body inside a Multiple).
NetworkConnection_send_message(n, channel, encodable, io) ==
    IF ~encodable
    THEN NetFail(n, "Encoding")
    ELSE LET r == NetworkConnection_send_frame(n, channel, io)
         IN  IF r.res = "Ok"
             THEN NetResult(r.obj, "Ok", 0, <<Written("message", channel)>>, {}, {})
             ELSE r

DisconnectOutcomes == {"ok", "close_failed", "shutdown_failed"}

\* A plausible slip: disconnect without the early return on Disconnected.
NetworkConnection_disconnect_NoEarlyReturn(n, io) ==
    LET abort == Aborted(n.keep_alive_handle)
        closing == [n EXCEPT !.state = "Closing", !.keep_alive_handle = 0]
    IN  IF closing.transport /\ io = "shutdown_failed"
        THEN NetResult([closing EXCEPT !.transport = FALSE], "Transport", 0, <<>>, {}, abort)
        ELSE NetResult([closing EXCEPT !.state = "Closed", !.transport = FALSE],
                       "Ok", 0,
                       IF closing.transport THEN <<Written("shutdown", 0)>> ELSE <<>>,
                       {}, abort)

\* A plausible slip: the JoinHandle is dropped without abort(), which leaves
\* the task running detached.
NetworkConnection_disconnect_NoAbort(n, io) ==
    IF n.state = "Disconnected"
    THEN NetResult(n, "Ok", 0, <<>>, {}, {})
    ELSE LET closing == [n EXCEPT !.state = "Closing", !.keep_alive_handle = 0]
         IN  IF closing.transport /\ io = "shutdown_failed"
             THEN NetResult([closing EXCEPT !.transport = FALSE], "Transport", 0, <<>>, {}, {})
             ELSE NetResult([closing EXCEPT !.state = "Closed", !.transport = FALSE],
                            "Ok", 0,
                            IF closing.transport THEN <<Written("shutdown", 0)>> ELSE <<>>,
                            {}, {})

\* A plausible slip: the transport is borrowed (as_mut) instead of taken, so
\* the closed connection still holds it.
NetworkConnection_disconnect_KeepsTransport(n, io) ==
    IF n.state = "Disconnected"
    THEN NetResult(n, "Ok", 0, <<>>, {}, {})
    ELSE LET closing == [n EXCEPT !.state = "Closing", !.keep_alive_handle = 0]
             abort == Aborted(n.keep_alive_handle)
         IN  IF closing.transport /\ io = "shutdown_failed"
             THEN NetResult(closing, "Transport", 0, <<>>, {}, abort)
             ELSE NetResult([closing EXCEPT !.state = "Closed"], "Ok", 0,
                            IF closing.transport
                            THEN <<Written("shutdown", 0)>> ELSE <<>>,
                            {}, abort)

\* disconnect: the state is Closing from the second statement on, and the
\* Close performative is sent only if the state read after that is Ready.
NetworkConnection_disconnect(n, io) ==
    IF n.state = "Disconnected"
    THEN NetResult(n, "Ok", 0, <<>>, {}, {})
    ELSE LET closing == [n EXCEPT !.state = "Closing", !.keep_alive_handle = 0]
             abort == Aborted(n.keep_alive_handle)
             sends == closing.transport /\ closing.state = "Ready"
             close == IF sends THEN <<Written("close", 0)>> ELSE <<>>
         IN  IF sends /\ io = "close_failed"
             THEN NetResult(closing, "Transport", 0, <<>>, {}, abort)
             ELSE IF closing.transport /\ io = "shutdown_failed"
             THEN NetResult([closing EXCEPT !.transport = FALSE],
                            "Transport", 0, close, {}, abort)
             ELSE NetResult([closing EXCEPT !.state = "Closed", !.transport = FALSE],
                            "Ok", 0,
                            IF closing.transport
                            THEN close \o <<Written("shutdown", 0)>> ELSE close,
                            {}, abort)

\* A plausible slip: the counter stops at the largest u16 instead of wrapping.
NetworkConnection_next_channel_Saturating(n) ==
    NetResult([n EXCEPT !.next_channel = IF @ = U16 - 1 THEN @ ELSE @ + 1],
              "Ok", n.next_channel, <<>>, {}, {})

NetworkConnection_next_channel(n) ==
    NetResult([n EXCEPT !.next_channel = (@ + 1) % U16], "Ok", n.next_channel,
              <<>>, {}, {})

\* impl Drop for NetworkConnection.
NetworkConnection_drop(n) ==
    NetResult([n EXCEPT !.keep_alive_handle = 0], "Ok", 0, <<>>, {},
              Aborted(n.keep_alive_handle))

(***************************************************************************)
(* codec::Encoder and codec::Decoder on AmqpValue                          *)
(*                                                                         *)
(* A value is a record [t, v]: t names the variant, v is its payload.      *)
(* Payloads of 8 and 16 bits are integers.  Payloads of 32, 64 and 128     *)
(* bits (Uint, Int, Float, Decimal32, Char; Ulong, Long, Double,           *)
(* Decimal64, Timestamp; Uuid, Decimal128) are their bit pattern as 16-bit *)
(* limbs, most significant first.  Binary, String and Symbol hold their    *)
(* octets (the UTF-8 octets for the two texts), List and Array a sequence  *)
(* of values, Map a function from symbols to values.                       *)
(***************************************************************************)
Val(t, v) == [t |-> t, v |-> v]

\* enum TypeCode (0x40 = 64, 0x41 = 65, ...).
TypeCode ==
    [Null |-> 64, BooleanTrue |-> 65, BooleanFalse |-> 66,
     Ubyte |-> 80, Ushort |-> 96, Uint |-> 112, Ulong |-> 128,
     Byte |-> 81, Short |-> 97, Int |-> 113, Long |-> 129,
     Float |-> 114, Double |-> 130,
     Decimal32 |-> 116, Decimal64 |-> 132, Decimal128 |-> 148,
     Char |-> 115, Timestamp |-> 131, Uuid |-> 152,
     Binary8 |-> 160, Binary32 |-> 176,
     String8 |-> 161, String32 |-> 177,
     Symbol8 |-> 163, Symbol32 |-> 179,
     List0 |-> 69, List8 |-> 192, List32 |-> 208,
     Map8 |-> 193, Map32 |-> 209,
     Array8 |-> 224, Array32 |-> 240]

\* The number of 16-bit limbs of the payloads wider than 16 bits.
Limbs ==
    [Uint |-> 2, Int |-> 2, Float |-> 2, Decimal32 |-> 2, Char |-> 2,
     Ulong |-> 4, Long |-> 4, Double |-> 4, Decimal64 |-> 4, Timestamp |-> 4,
     Uuid |-> 8, Decimal128 |-> 8]

Drop(buf, n) == SubSeq(buf, n + 1, Len(buf))

\* BufMut::put_u16 .. put_u128, put_i32 .. put_i64, put_f32, put_f64 on the
\* limbs of the value: big-endian, two octets per limb.
RECURSIVE PutLimbs(_)
PutLimbs(limbs) ==
    IF limbs = <<>>
    THEN <<>>
    ELSE <<Head(limbs) \div 256, Head(limbs) % 256>> \o PutLimbs(Tail(limbs))

\* Buf::get_u32 .. get_u128 and the like: n limbs from the front of buf.
GetLimbs(buf, n) == [i \in 1..n |-> buf[2 * i - 1] * 256 + buf[2 * i]]

\* put_u32 of a length or a count.
PutU32(n) ==
    <<(n \div 16777216) % 256, (n \div 65536) % 256, (n \div 256) % 256, n % 256>>

\* get_u32() as usize of a length or count below 2^31 (see Huge).
GetU32(buf) == buf[1] * 16777216 + buf[2] * 65536 + buf[3] * 256 + buf[4]

\* Whether the u32 at the front of buf is 2^31 or more: more octets than any
\* buffer holds, more items than any allocation.
Huge(buf) == buf[1] >= 128

\* A plausible slip: the one-octet form only below 255 octets.
EncodeVariable_Below(code8, code32, data) ==
    IF Len(data) < U8Max
    THEN <<code8, Len(data)>> \o data
    ELSE <<code32>> \o PutU32(Len(data)) \o data

\* The header and payload of Binary, String and Symbol.
EncodeVariable(code8, code32, data) ==
    IF Len(data) <= U8Max
    THEN <<code8, Len(data)>> \o data
    ELSE <<code32>> \o PutU32(Len(data)) \o data

\* HashMap iteration: the keys of m in the order `ord` gives the symbols.
MapOrder(m, ord) == SelectSeq(ord, LAMBDA k : k \in DOMAIN m)

RECURSIVE encode_value(_, _), EncodeItems(_, _), EncodeEntries(_, _, _)
\* `for item in list { self.encode_value(item)?; }`: the octets of the items
\* one after the other (the first half of the items, then the second).
EncodeItems(items, ord) ==
    IF items = <<>> THEN <<>>
    ELSE IF Len(items) = 1 THEN encode_value(items[1], ord)
    ELSE LET half == Len(items) \div 2
         IN  EncodeItems(SubSeq(items, 1, half), ord)
               \o EncodeItems(SubSeq(items, half + 1, Len(items)), ord)

\* `for (key, value) in map { encode_symbol(key)?; encode_value(value)?; }`
EncodeEntries(m, keys, ord) ==
    IF keys = <<>>
    THEN <<>>
    ELSE EncodeVariable(TypeCode.Symbol8, TypeCode.Symbol32, Head(keys))
           \o encode_value(m[Head(keys)], ord)
           \o EncodeEntries(m, Tail(keys), ord)

\* Encoder::encode_value: the octets appended to the buffer.  No branch
\* returns an error.
encode_value(value, ord) ==
    LET t == value.t
        v == value.v
    IN  CASE t = "Null" -> <<TypeCode.Null>>
          [] t = "Boolean" ->
               IF v THEN <<TypeCode.BooleanTrue>> ELSE <<TypeCode.BooleanFalse>>
          [] t = "Ubyte" -> <<TypeCode.Ubyte, v>>
          [] t = "Ushort" -> <<TypeCode.Ushort, v \div 256, v % 256>>
          [] t = "Byte" -> <<TypeCode.Byte, v % 256>>
          [] t = "Short" -> <<TypeCode.Short, (v \div 256) % 256, v % 256>>
          [] t \in DOMAIN Limbs -> <<TypeCode[t]>> \o PutLimbs(v)
          [] t = "Binary" -> EncodeVariable(TypeCode.Binary8, TypeCode.Binary32, v)
          [] t = "String" -> EncodeVariable(TypeCode.String8, TypeCode.String32, v)
          [] t = "Symbol" -> EncodeVariable(TypeCode.Symbol8, TypeCode.Symbol32, v)
          [] t = "List" ->
               (IF v = <<>>
                THEN <<TypeCode.List0>>
                ELSE IF Len(v) <= U8Max
                     THEN <<TypeCode.List8, Len(v)>>
                     ELSE <<TypeCode.List32>> \o PutU32(Len(v)))
               \o EncodeItems(v, ord)
          [] t = "Map" ->
               LET n == Cardinality(DOMAIN v)
               IN  (IF n = 0
                    THEN <<TypeCode.Map8, 0>>
                    ELSE IF n <= Map8Max
                         THEN <<TypeCode.Map8, n>>
                         ELSE <<TypeCode.Map32>> \o PutU32(n))
                   \o EncodeEntries(v, MapOrder(v, ord), ord)
          [] t = "Array" ->
               LET encoded_data == EncodeItems(v, ord)
                   size == Len(encoded_data)
               IN  (IF size <= U8Max
                    THEN <<TypeCode.Array8, size, Len(v) % 256>>
                    ELSE <<TypeCode.Array32>> \o PutU32(size) \o PutU32(Len(v)))
                   \o encoded_data

\* The result of a decoding step: Ok with the value, or the error kind, and
\* the buffer the step leaves ("Panic": an advance past the end of the buffer
\* or an allocation that cannot be made).
Decoded(res, val, rest) == [res |-> res, val |-> val, rest |-> rest]

\* F applied to the value of e, which is worked out once: the result of one
\* decoding step handed to the statements that follow it.
Then(e, F(_)) == CHOOSE y \in {F(x) : x \in {e}} : TRUE

DecodeError(rest) == Decoded("Decoding", Val("Null", 0), rest)

DecodePanic(rest) == Decoded("Panic", Val("Null", 0), rest)

\* The number of continuation octets the lead octet b asks for; -1 when b
\* cannot start a character.
Utf8Need(b) ==
    IF b < 128 THEN 0
    ELSE IF b \in 194..223 THEN 1
    ELSE IF b \in 224..239 THEN 2
    ELSE IF b \in 240..244 THEN 3
    ELSE -1

\* The range of the octet after the lead octet b (it is narrower than
\* 0x80..0xBF after 0xE0, 0xED, 0xF0 and 0xF4).
Utf8Second(b) ==
    IF b = 224 THEN 160..191
    ELSE IF b = 237 THEN 128..159
    ELSE IF b = 240 THEN 144..191
    ELSE IF b = 244 THEN 128..143
    ELSE 128..191

\* String::from_utf8: whether the octets are well-formed UTF-8.  Every octet
\* is a lead octet followed by the continuation octets it asks for, or a
\* continuation octet some lead octet before it asks for.
Utf8Valid(d) ==
    \A i \in DOMAIN d :
       IF d[i] \in 128..191
       THEN \E j \in 1..3 :
               /\ i - j >= 1
               /\ Utf8Need(d[i - j]) >= j
               /\ \A k \in 1..(j - 1) : d[i - k] \in 128..191
       ELSE /\ Utf8Need(d[i]) >= 0
            /\ i + Utf8Need(d[i]) <= Len(d)
            /\ \A k \in 1..Utf8Need(d[i]) :
                  d[i + k] \in (IF k = 1 THEN Utf8Second(d[i]) ELSE 128..191)

\* decode_ubyte .. decode_short after the type code.
decode_ubyte(b) ==
    IF Len(b) < 1 THEN DecodeError(b)
    ELSE Decoded("Ok", Val("Ubyte", b[1]), Drop(b, 1))

decode_ushort(b) ==
    IF Len(b) < 2 THEN DecodeError(b)
    ELSE Decoded("Ok", Val("Ushort", b[1] * 256 + b[2]), Drop(b, 2))

decode_byte(b) ==
    IF Len(b) < 1 THEN DecodeError(b)
    ELSE Decoded("Ok", Val("Byte", IF b[1] >= 128 THEN b[1] - 256 ELSE b[1]), Drop(b, 1))

decode_short(b) ==
    IF Len(b) < 2 THEN DecodeError(b)
    ELSE LET w == b[1] * 256 + b[2]
         IN  Decoded("Ok", Val("Short", IF w >= 32768 THEN w - 65536 ELSE w), Drop(b, 2))

\* decode_uint, decode_ulong, decode_int, decode_long, decode_float,
\* decode_double, decode_timestamp, decode_uuid after the type code.
DecodeWide(t, b) ==
    IF Len(b) < 2 * Limbs[t] THEN DecodeError(b)
    ELSE Decoded("Ok", Val(t, GetLimbs(b, Limbs[t])), Drop(b, 2 * Limbs[t]))

\* decode_char: char::from_u32 refuses what lies above 0x10FFFF and the
\* surrogates 0xD800..0xDFFF.
decode_char(b) ==
    IF Len(b) < 4 THEN DecodeError(b)
    ELSE LET code_point == GetLimbs(b, 2)
         IN  IF code_point[1] > 16 \/ (code_point[1] = 0 /\ code_point[2] \in 55296..57343)
             THEN DecodeError(Drop(b, 4))
             ELSE Decoded("Ok", Val("Char", code_point), Drop(b, 4))

\* decode_binary8 / decode_string8 / decode_symbol8 (wide = FALSE) and
\* decode_binary32 / decode_string32 / decode_symbol32 (wide = TRUE).
DecodeVariable(t, wide, b) ==
    LET w == IF wide THEN 4 ELSE 1
    IN  IF Len(b) < w THEN DecodeError(b)
        ELSE IF wide /\ Huge(b) THEN DecodeError(Drop(b, w))
        ELSE LET len == IF wide THEN GetU32(b) ELSE b[1]
                 rest == Drop(b, w)
                 data == SubSeq(rest, 1, len)
             IN  IF Len(rest) < len THEN DecodeError(rest)
                 ELSE IF t # "Binary" /\ ~Utf8Valid(data) THEN DecodeError(Drop(rest, len))
                 ELSE Decoded("Ok", Val(t, data), Drop(rest, len))

\* Decoder::decode_symbol: the key of a map entry.
decode_symbol(buf) ==
    IF buf = <<>> THEN DecodeError(buf)
    ELSE IF Head(buf) = TypeCode.Symbol8 THEN DecodeVariable("Symbol", FALSE, Tail(buf))
    ELSE IF Head(buf) = TypeCode.Symbol32 THEN DecodeVariable("Symbol", TRUE, Tail(buf))
    ELSE DecodeError(Tail(buf))

\* The count of a List8 / Map8 (wide = FALSE: get_u8) or List32 / Map32
\* (wide = TRUE: get_u32), read without a look at what remains.
CountRead(wide, b) ==
    LET w == IF wide THEN 4 ELSE 1
    IN  IF Len(b) < w THEN DecodePanic(b)
        ELSE IF wide /\ Huge(b) THEN DecodePanic(Drop(b, w))
        ELSE Decoded("Ok", IF wide THEN GetU32(b) ELSE b[1], Drop(b, w))

RECURSIVE decode_value(_), DecodeItems(_, _), DecodeEntries(_, _, _)
\* `for _ in 0..count { items.push(self.decode_value()?); }`: count values
\* decoded one after the other (the first half of them, then the second),
\* up to the first that fails.
DecodeItems(b, count) ==
    IF count = 0 THEN Decoded("Ok", <<>>, b)
    ELSE IF count = 1
    THEN Then(decode_value(b), LAMBDA r :
           IF r.res # "Ok" THEN r ELSE Decoded("Ok", <<r.val>>, r.rest))
    ELSE Then(DecodeItems(b, count \div 2), LAMBDA first :
           IF first.res # "Ok" THEN first
           ELSE Then(DecodeItems(first.rest, count - count \div 2), LAMBDA second :
                  IF second.res # "Ok" THEN second
                  ELSE Decoded("Ok", first.val \o second.val, second.rest)))

\* `for _ in 0..count { key = decode_symbol()?; value = decode_value()?;
\*  map.insert(key, value); }`
DecodeEntries(b, count, map) ==
    IF count = 0
    THEN Decoded("Ok", map, b)
    ELSE Then(decode_symbol(b), LAMBDA key :
           IF key.res # "Ok" THEN key
           ELSE Then(decode_value(key.rest), LAMBDA value :
                  IF value.res # "Ok" THEN value
                  ELSE Then([k \in DOMAIN map \cup {key.val.v} |->
                               IF k = key.val.v THEN value.val ELSE map[k]],
                            LAMBDA inserted :
                              DecodeEntries(value.rest, count - 1, inserted))))

\* The List8 / List32 and Map8 / Map32 branches of decode_value.
DecodeList(wide, b) ==
    Then(CountRead(wide, b), LAMBDA count :
      IF count.res # "Ok" THEN count
      ELSE Then(DecodeItems(count.rest, count.val), LAMBDA r :
             IF r.res # "Ok" THEN r ELSE Decoded("Ok", Val("List", r.val), r.rest)))

DecodeMap(wide, b) ==
    Then(CountRead(wide, b), LAMBDA count :
      IF count.res # "Ok" THEN count
      ELSE Then(DecodeEntries(count.rest, count.val, [k \in {} |-> Val("Null", 0)]), LAMBDA r :
             IF r.res # "Ok" THEN r ELSE Decoded("Ok", Val("Map", r.val), r.rest)))

\* decode_array8 (wide = FALSE) and decode_array32 (wide = TRUE).
DecodeArray(wide, b) ==
    LET w == IF wide THEN 4 ELSE 1
    IN  IF Len(b) < 2 * w THEN DecodeError(b)
        ELSE LET rest == Drop(b, 2 * w)
             IN  IF wide /\ Huge(b) THEN DecodeError(rest)
                 ELSE IF Len(rest) < (IF wide THEN GetU32(b) ELSE b[1]) THEN DecodeError(rest)
                 ELSE IF wide /\ Huge(Drop(b, w)) THEN DecodePanic(rest)
                 ELSE Then(DecodeItems(rest, IF wide THEN GetU32(Drop(b, w)) ELSE b[2]),
                           LAMBDA r :
                             IF r.res # "Ok" THEN r
                             ELSE Decoded("Ok", Val("Array", r.val), r.rest))

\* Decoder::decode_value on the buffer buf.  The Decimal32, Decimal64 and
\* Decimal128 type codes have no branch of their own.
decode_value(buf) ==
    IF buf = <<>>
    THEN DecodeError(buf)
    ELSE LET type_code == Head(buf)
             b == Tail(buf)
         IN  CASE type_code = TypeCode.Null -> Decoded("Ok", Val("Null", 0), b)
               [] type_code = TypeCode.BooleanTrue -> Decoded("Ok", Val("Boolean", TRUE), b)
               [] type_code = TypeCode.BooleanFalse -> Decoded("Ok", Val("Boolean", FALSE), b)
               [] type_code = TypeCode.Ubyte -> decode_ubyte(b)
               [] type_code = TypeCode.Ushort -> decode_ushort(b)
               [] type_code = TypeCode.Uint -> DecodeWide("Uint", b)
               [] type_code = TypeCode.Ulong -> DecodeWide("Ulong", b)
               [] type_code = TypeCode.Byte -> decode_byte(b)
               [] type_code = TypeCode.Short -> decode_short(b)
               [] type_code = TypeCode.Int -> DecodeWide("Int", b)
               [] type_code = TypeCode.Long -> DecodeWide("Long", b)
               [] type_code = TypeCode.Float -> DecodeWide("Float", b)
               [] type_code = TypeCode.Double -> DecodeWide("Double", b)
               [] type_code = TypeCode.Char -> decode_char(b)
               [] type_code = TypeCode.Timestamp -> DecodeWide("Timestamp", b)
               [] type_code = TypeCode.Uuid -> DecodeWide("Uuid", b)
               [] type_code = TypeCode.Binary8 -> DecodeVariable("Binary", FALSE, b)
               [] type_code = TypeCode.Binary32 -> DecodeVariable("Binary", TRUE, b)
               [] type_code = TypeCode.String8 -> DecodeVariable("String", FALSE, b)
               [] type_code = TypeCode.String32 -> DecodeVariable("String", TRUE, b)
               [] type_code = TypeCode.Symbol8 -> DecodeVariable("Symbol", FALSE, b)
               [] type_code = TypeCode.Symbol32 -> DecodeVariable("Symbol", TRUE, b)
               [] type_code = TypeCode.List0 -> Decoded("Ok", Val("List", <<>>), b)
               [] type_code = TypeCode.List8 -> DecodeList(FALSE, b)
               [] type_code = TypeCode.List32 -> DecodeList(TRUE, b)
               [] type_code = TypeCode.Map8 -> DecodeMap(FALSE, b)
               [] type_code = TypeCode.Map32 -> DecodeMap(TRUE, b)
               [] type_code = TypeCode.Array8 -> DecodeArray(FALSE, b)
               [] type_code = TypeCode.Array32 -> DecodeArray(TRUE, b)
               [] OTHER -> DecodeError(b)


\* n octets b.
Octets(n, b) == [i \in 1..n |-> b]

\* The symbols used as map keys: "a" and "b".
Symbols == {<<97>>, <<98>>}

\* The values given to the encoder: every variant with its extreme payloads,
\* payloads on both sides of the one-octet length limit, and composites
\* nested in each other.
ScalarValues ==
    << Val("Null", 0), Val("Boolean", TRUE), Val("Boolean", FALSE),
       Val("Ubyte", 0), Val("Ubyte", 255),
       Val("Ushort", 12345), Val("Ushort", 65535),
       Val("Uint", <<0, 0>>), Val("Uint", <<65535, 65535>>),
       Val("Ulong", <<65535, 65535, 65535, 65535>>),
       Val("Byte", -128), Val("Byte", -42), Val("Byte", 127),
       Val("Short", -32768), Val("Short", -1), Val("Short", 32767),
       Val("Int", <<32768, 0>>), Val("Int", <<65535, 65535>>),
       Val("Long", <<32768, 0, 0, 0>>),
       Val("Float", <<16457, 4048>>), Val("Float", <<32704, 0>>),
       Val("Double", <<16393, 8699, 21572, 11864>>),
       Val("Decimal32", <<0, 1>>),
       Val("Decimal64", <<0, 0, 0, 1>>),
       Val("Decimal128", <<0, 0, 0, 0, 0, 0, 0, 1>>),
       Val("Char", <<0, 65>>), Val("Char", <<16, 65535>>),
       Val("Timestamp", <<0, 0, 18838, 722>>),
       Val("Uuid", <<17, 8755, 17493, 26231, 34969, 43707, 52445, 61183>>) >>

VariableValues ==
    << Val("Binary", <<>>), Val("Binary", <<1, 2, 255>>),
       Val("Binary", Octets(U8Max, 7)), Val("Binary", Octets(U8Max + 1, 7)),
       Val("String", <<>>), Val("String", <<72, 105>>), Val("String", <<195, 169>>),
       Val("String", Octets(U8Max + 1, 97)),
       Val("Symbol", <<107>>), Val("Symbol", Octets(U8Max + 1, 97)) >>

CompositeValues ==
    << Val("List", <<>>),
       Val("List", <<Val("Null", 0), Val("Ubyte", 1)>>),
       Val("List", <<Val("List", <<Val("String", <<72, 105>>)>>),
                     Val("Map", [k \in {<<97>>} |-> Val("Array", <<Val("Short", -1)>>)])>>),
       Val("List", Octets(U8Max + 1, Val("Null", 0))),
       Val("Map", [k \in {} |-> Val("Null", 0)]),
       Val("Map", [k \in {<<97>>} |-> Val("String", <<72, 105>>)]),
       Val("Map", [k \in Symbols |->
                     IF k = <<97>> THEN Val("List", <<Val("Boolean", TRUE)>>)
                     ELSE Val("Map", [j \in Symbols |-> Val("Symbol", j)])]),
       Val("Array", <<>>),
       Val("Array", <<Val("Ubyte", 1), Val("Ubyte", 2)>>),
       Val("Array", <<Val("List", <<>>), Val("Array", <<Val("Char", <<0, 65>>)>>)>>),
       Val("Array", Octets(U8Max + 1, Val("Null", 0))),
       Val("List", <<Val("Decimal64", <<0, 0, 0, 1>>)>>) >>

TestValues == ScalarValues \o VariableValues \o CompositeValues

\* The values written one after the other to an encoder whose output is
\* decoded as a stream: fixed-width, length-prefixed and composite ones.
StreamValues ==
    << Val("Null", 0), Val("Boolean", TRUE), Val("Ubyte", 255), Val("Short", -1),
       Val("Decimal32", <<0, 1>>),
       Val("String", <<72, 105>>), Val("Binary", Octets(U8Max + 1, 7)),
       Val("List", <<Val("Null", 0), Val("Ubyte", 1)>>),
       Val("Map", [k \in Symbols |-> Val("Symbol", k)]),
       Val("Array", <<Val("Ubyte", 1), Val("Ubyte", 2)>>) >>

\* The octets the sequences given to a decoder are built from: type codes
\* of every shape (no payload, fixed width, length-prefixed, counted, sized,
\* without a branch in decode_value) and the small and large octets that
\* follow them as lengths and counts.
TestOctets ==
    {0, 1, 2, 64, 65, 69, 80, 96, 112, 115, 116, 128, 152, 160, 161, 163, 176,
     192, 193, 208, 209, 224, 240, 255}

RECURSIVE OctetSeqs(_)
OctetSeqs(n) ==
    IF n = 0 THEN {<<>>}
    ELSE LET shorter == OctetSeqs(n - 1)
         IN  shorter \cup {Append(q, o) : q \in {p \in shorter : Len(p) = n - 1}, o \in TestOctets}

\* Longer sequences: Chars that are and are not scalar values, payloads and
\* headers cut short, text that is not UTF-8, counts no buffer can hold, an
\* array that announces more items than follow, and well-formed values.
LongOctets ==
    { <<115, 0, 0, 216, 0>>, <<115, 0, 17, 0, 0>>, <<115, 0, 0, 0, 65>>, <<115, 0, 16, 255, 255>>,
      <<115, 0, 0, 0>>, <<112, 0, 0, 0>>, <<128, 0, 0, 0, 0, 0, 0, 0>>, <<152, 1, 2, 3>>,
      <<160, 5, 1, 2>>, <<161, 2, 195, 169>>, <<161, 2, 195, 40>>, <<163, 3, 97, 98>>,
      <<176, 0, 0>>, <<176, 0, 0, 0, 2, 7>>, <<176, 255, 255, 255, 255>>, <<177, 0, 0, 0, 1, 97>>,
      <<192, 2, 64>>, <<192, 2, 64, 65>>, <<193, 1, 163, 1, 97>>, <<193, 1, 64, 64>>,
      <<193, 1, 163, 1, 97, 80, 7>>,
      <<208, 0, 0>>, <<208, 0, 0, 0, 1, 64>>, <<208, 255, 255, 255, 255>>,
      <<209, 0, 0, 0>>, <<209, 128, 0, 0, 0>>,
      <<224, 1, 2, 64>>, <<224, 2, 2, 64, 65>>, <<224, 9, 1, 64>>,
      <<240, 0, 0, 0>>, <<240, 0, 0, 0, 1, 0, 0, 0, 1, 64>>,
      <<240, 255, 255, 255, 255, 0, 0, 0, 0>>, <<240, 0, 0, 0, 0, 255, 255, 255, 255>> }

DecoderInputs == OctetSeqs(MaxOctets) \cup LongOctets

(***************************************************************************)
(* message::Message and its encoding (codec::Encoder::encode_message,      *)
(* codec::Decoder::decode_message)                                         *)
(*                                                                         *)
(* An Option is <<>> for None and <<x>> for Some(x).  A Body is a record   *)
(* [k, v]: k is "Value" (v a value), "Data" (v octets), "Sequence" (v a    *)
(* sequence of values) or "Multiple" (v a sequence of bodies).             *)
(***************************************************************************)
\* AmqpSymbol::from(name) for the names of the header and properties fields:
\* the octets of the name.
FieldSymbol ==
    [durable |-> <<100, 117, 114, 97, 98, 108, 101>>,
     priority |-> <<112, 114, 105, 111, 114, 105, 116, 121>>,
     ttl |-> <<116, 116, 108>>,
     first_acquirer |-> <<102, 105, 114, 115, 116, 95, 97, 99, 113, 117, 105, 114, 101, 114>>,
     delivery_count |-> <<100, 101, 108, 105, 118, 101, 114, 121, 95, 99, 111, 117, 110, 116>>,
     message_id |-> <<109, 101, 115, 115, 97, 103, 101, 95, 105, 100>>,
     user_id |-> <<117, 115, 101, 114, 95, 105, 100>>,
     to |-> <<116, 111>>,
     subject |-> <<115, 117, 98, 106, 101, 99, 116>>,
     reply_to |-> <<114, 101, 112, 108, 121, 95, 116, 111>>,
     correlation_id |-> <<99, 111, 114, 114, 101, 108, 97, 116, 105, 111, 110, 95, 105, 100>>,
     content_type |-> <<99, 111, 110, 116, 101, 110, 116, 95, 116, 121, 112, 101>>,
     content_encoding |-> <<99, 111, 110, 116, 101, 110, 116, 95, 101, 110, 99, 111, 100, 105, 110, 103>>,
     absolute_expiry_time |-> <<97, 98, 115, 111, 108, 117, 116, 101, 95, 101, 120, 112, 105, 114, 121, 95, 116, 105, 109, 101>>,
     creation_time |-> <<99, 114, 101, 97, 116, 105, 111, 110, 95, 116, 105, 109, 101>>,
     group_id |-> <<103, 114, 111, 117, 112, 95, 105, 100>>,
     group_sequence |-> <<103, 114, 111, 117, 112, 95, 115, 101, 113, 117, 101, 110, 99, 101>>,
     reply_to_group_id |-> <<114, 101, 112, 108, 121, 95, 116, 111, 95, 103, 114, 111, 117, 112, 95, 105, 100>>]

\* The fields of Header and of Properties with the variant each is encoded
\* as ("Any": the field is an AmqpValue and is written as it is).
HeaderFields ==
    [durable |-> "Boolean", priority |-> "Ubyte", ttl |-> "Uint",
     first_acquirer |-> "Boolean", delivery_count |-> "Uint"]

PropertiesFields ==
    [message_id |-> "Any", user_id |-> "Binary", to |-> "String",
     subject |-> "String", reply_to |-> "String", correlation_id |-> "Any",
     content_type |-> "Symbol", content_encoding |-> "Symbol",
     absolute_expiry_time |-> "Timestamp", creation_time |-> "Timestamp",
     group_id |-> "String", group_sequence |-> "Uint",
     reply_to_group_id |-> "String"]

\* Header::new() / Properties::new(): every field None.
NoFields(fields) == [f \in DOMAIN fields |-> <<>>]

\* Message::new()
Message_new ==
    [header |-> <<>>, delivery_annotations |-> <<>>, message_annotations |-> <<>>,
     properties |-> <<>>, application_properties |-> <<>>, body |-> <<>>,
     footer |-> <<>>]

\* The map encode_message builds of a Header or Properties: one entry for
\* each field that is Some.
SectionMap(section, fields) ==
    LET present == {f \in DOMAIN fields : Len(section[f]) > 0}
    IN  [k \in {FieldSymbol[f] : f \in present} |->
           LET f == CHOOSE g \in present : FieldSymbol[g] = k
           IN  IF fields[f] = "Any" THEN section[f][1] ELSE Val(fields[f], section[f][1])]

\* The Header or Properties decode_message builds of a map: a field is Some
\* when the map has its key with a value of its variant.
SectionOf(map, fields) ==
    [f \in DOMAIN fields |->
       IF FieldSymbol[f] \notin DOMAIN map THEN <<>>
       ELSE IF fields[f] = "Any" THEN <<map[FieldSymbol[f]]>>
       ELSE IF map[FieldSymbol[f]].t = fields[f] THEN <<map[FieldSymbol[f]].v>>
       ELSE <<>>]

\* The result of encode_message: Ok or the error kind, and the octets in the
\* encoder's buffer when it returns.
Encoded(res, octets) == [res |-> res, octets |-> octets]

\* One body that is not Multiple, as the two match statements of
\* encode_message write it.
EncodePart(body, ord) ==
    CASE body.k = "Value" -> encode_value(body.v, ord)
      [] body.k = "Data" -> EncodeVariable(TypeCode.Binary8, TypeCode.Binary32, body.v)
      [] body.k = "Sequence" -> EncodeItems(body.v, ord)

\* `for body in bodies { .. }` of a Multiple body: up to the first nested
\* Multiple, which is an Encoding error.
RECURSIVE EncodeParts(_, _)
EncodeParts(bodies, ord) ==
    IF bodies = <<>> THEN Encoded("Ok", <<>>)
    ELSE IF Head(bodies).k = "Multiple" THEN Encoded("Encoding", <<>>)
    ELSE LET more == EncodeParts(Tail(bodies), ord)
         IN  Encoded(more.res, EncodePart(Head(bodies), ord) \o more.octets)

\* Encoder::encode_message on an empty encoder.  ordH and ordP are the
\* iteration orders of the header map and the properties map, ord that of the
\* maps inside the body.  The delivery annotations, message annotations,
\* application properties and footer are not looked at.
encode_message(message, ordH, ordP, ord) ==
    LET header == IF message.header = <<>> THEN <<>>
                  ELSE encode_value(Val("Map", SectionMap(message.header[1], HeaderFields)), ordH)
        properties == IF message.properties = <<>> THEN <<>>
                      ELSE encode_value(Val("Map", SectionMap(message.properties[1], PropertiesFields)), ordP)
        body == IF message.body = <<>> THEN Encoded("Ok", <<>>)
                ELSE IF message.body[1].k = "Multiple" THEN EncodeParts(message.body[1].v, ord)
                ELSE Encoded("Ok", EncodePart(message.body[1], ord))
    IN  Encoded(body.res, header \o properties \o body.octets)

\* Decoder::decode_message: up to three decode_value calls while octets
\* remain.  The first value is the header when it is a map, the second the
\* properties when it is a map (a value that is no map is dropped), the third
\* is the body.
decode_message(buf) ==
    LET Section(b, fields) ==
          IF b = <<>> THEN Decoded("Ok", <<>>, b)
          ELSE Then(decode_value(b), LAMBDA r :
                 IF r.res # "Ok" THEN r
                 ELSE Decoded("Ok",
                              IF r.val.t = "Map" THEN <<SectionOf(r.val.v, fields)>> ELSE <<>>,
                              r.rest))
        Body(b) ==
          IF b = <<>> THEN Decoded("Ok", <<>>, b)
          ELSE Then(decode_value(b), LAMBDA r :
                 IF r.res # "Ok" THEN r
                 ELSE Decoded("Ok", <<[k |-> "Value", v |-> r.val]>>, r.rest))
    IN  Then(Section(buf, HeaderFields), LAMBDA first :
          IF first.res # "Ok" THEN first
          ELSE Then(Section(first.rest, PropertiesFields), LAMBDA second :
                 IF second.res # "Ok" THEN second
                 ELSE Then(Body(second.rest), LAMBDA third :
                        IF third.res # "Ok" THEN third
                        ELSE Decoded("Ok",
                                     [Message_new EXCEPT !.header = first.val,
                                                         !.properties = second.val,
                                                         !.body = third.val],
                                     third.rest))))

\* The sections the messages given to encode_message are made of: each
\* absent, or present with some content.
HeaderOpts ==
    << <<>>,
       <<NoFields(HeaderFields)>>,
       <<[NoFields(HeaderFields) EXCEPT !.durable = <<TRUE>>, !.priority = <<4>>,
                                        !.ttl = << <<0, 1000>> >>]>> >>

MapOpts ==
    << <<>>, <<[k \in {<<97>>} |-> Val("String", <<72, 105>>)]>> >>

PropertiesOpts ==
    << <<>>,
       <<[NoFields(PropertiesFields) EXCEPT !.message_id = <<Val("String", <<105, 100>>)>>,
                                            !.to = << <<113>> >>,
                                            !.creation_time = << <<0, 0, 18838, 722>> >>]>> >>

\* No body, Message::text, Message::binary, a map value, a sequence, and
\* multiple bodies without and with a Multiple among them.
BodyOpts ==
    << <<>>,
       <<[k |-> "Value", v |-> Val("String", <<72, 105>>)]>>,
       <<[k |-> "Data", v |-> <<1, 2, 3>>]>>,
       <<[k |-> "Value", v |-> Val("Map", [j \in Symbols |-> Val("Symbol", j)])]>>,
       <<[k |-> "Sequence", v |-> <<Val("Ubyte", 1), Val("Ubyte", 2)>>]>>,
       <<[k |-> "Multiple", v |-> <<[k |-> "Data", v |-> <<1>>],
                                    [k |-> "Value", v |-> Val("Null", 0)]>>]>>,
       <<[k |-> "Multiple", v |-> <<[k |-> "Data", v |-> <<1>>],
                                    [k |-> "Multiple", v |-> <<>>]>>]>> >>

\* What the caller of a codec gives to encode_value, and how many times.
CodecKinds == {"Codec", "Stream"}

MessageKinds == {"Message"}

CodecInputs == IF kind = "Stream" THEN StreamValues ELSE TestValues

CodecLimit == IF kind = "Stream" THEN MaxStream ELSE MaxValues

(***************************************************************************)
(* The caller of one link object.                                          *)
(***************************************************************************)
InitOthers ==
    /\ link = Link_new
    /\ receiver = Receiver_new
    /\ sent = 0
    /\ credited = 0
    /\ enqueued = <<>>
    /\ consumed = <<>>
    /\ session = Session_new(0)
    /\ endpoints = <<>>
    /\ granted = <<>>
    /\ handles = <<>>
    /\ net = NetworkConnection_new
    /\ dropped = FALSE
    /\ tasks = {}
    /\ spawned = 0
    /\ ticks = 0
    /\ wire = <<>>
    /\ calls = 0
    /\ encoder = <<>>
    /\ encoded = <<>>
    /\ decoder = <<>>
    /\ decoded = <<>>
    /\ stage = "encoding"
    /\ frame = <<>>
    /\ bytes = <<>>
    /\ parsed = <<>>
    /\ peer = <<>>
    /\ condition = <<>>
    /\ text = <<>>
    /\ ret = [op |-> "new", res |-> "Ok", val |-> 0, io |-> "none"]

InitObjects ==
    /\ InitOthers
    /\ sender = Sender_new
    /\ conn = Connection_new

\* The Sender is built from a LinkConfig with any sender settle mode.
InitLink ==
    /\ kind \in {"Link", "Sender", "Receiver"}
    /\ InitOthers
    /\ \E mode \in IF kind = "Sender" THEN SenderSettleModes ELSE {"Mixed"} :
         sender = [Sender_new EXCEPT !.link.config.sender_settle_mode = mode]
    /\ conn = Connection_new

LinkAttach ==
    /\ kind = "Link"
    /\ LET r == Link_attach(link)
       IN  link' = r.obj /\ ret' = Call("Link.attach", r)
    /\ UNCHANGED <<kind, transportVars, conditionVars, codecVars, sessionVars, connVars,
                   netVars, sender, receiver, sent, credited, enqueued, consumed>>

LinkDetach ==
    /\ kind = "Link"
    /\ LET r == Link_detach(link)
       IN  link' = r.obj /\ ret' = Call("Link.detach", r)
    /\ UNCHANGED <<kind, transportVars, conditionVars, codecVars, sessionVars, connVars,
                   netVars, sender, receiver, sent, credited, enqueued, consumed>>

SenderAttach ==
    /\ kind = "Sender"
    /\ LET r == Sender_attach(sender)
       IN  sender' = r.obj /\ ret' = Call("Sender.attach", r)
    /\ UNCHANGED <<kind, transportVars, conditionVars, codecVars, sessionVars, connVars,
                   netVars, link, receiver, sent, credited, enqueued, consumed>>

SenderDetach ==
    /\ kind = "Sender"
    /\ LET r == Sender_detach(sender)
       IN  sender' = r.obj /\ ret' = Call("Sender.detach", r)
    /\ UNCHANGED <<kind, transportVars, conditionVars, codecVars, sessionVars, connVars,
                   netVars, link, receiver, sent, credited, enqueued, consumed>>

SenderSend ==
    /\ kind = "Sender"
    /\ sent < MaxDeliveries
    /\ \E m \in Msgs :
         LET r == Sender_send(sender, m)
         IN  /\ sender' = r.obj
             /\ ret' = Call("Sender.send", r)
             /\ sent' = IF r.res = "Ok" THEN sent + 1 ELSE sent
    /\ UNCHANGED <<kind, transportVars, conditionVars, codecVars, sessionVars, connVars,
                   netVars, link, receiver, credited, enqueued, consumed>>

SenderAddCredit ==
    /\ kind = "Sender"
    /\ \E n \in 0..MaxGrant :
         /\ sender.credit + n <= MaxCredit
         /\ LET r == Sender_add_credit(sender, n)
            IN  sender' = r.obj /\ ret' = Call("Sender.add_credit", r)
         /\ credited' = credited + n
    /\ UNCHANGED <<kind, transportVars, conditionVars, codecVars, sessionVars, connVars,
                   netVars, link, receiver, sent, enqueued, consumed>>

ReceiverAttach ==
    /\ kind = "Receiver"
    /\ LET r == Receiver_attach(receiver)
       IN  receiver' = r.obj /\ ret' = Call("Receiver.attach", r)
    /\ UNCHANGED <<kind, transportVars, conditionVars, codecVars, sessionVars, connVars,
                   netVars, link, sender, sent, credited, enqueued, consumed>>

ReceiverDetach ==
    /\ kind = "Receiver"
    /\ LET r == Receiver_detach(receiver)
       IN  receiver' = r.obj /\ ret' = Call("Receiver.detach", r)
    /\ UNCHANGED <<kind, transportVars, conditionVars, codecVars, sessionVars, connVars,
                   netVars, link, sender, sent, credited, enqueued, consumed>>

ReceiverReceive ==
    /\ kind = "Receiver"
    /\ LET r == Receiver_receive(receiver)
       IN  /\ receiver' = r.obj
           /\ ret' = Call("Receiver.receive", r)
           /\ consumed' = IF r.res = "Ok" /\ r.val # 0
                          THEN Append(consumed, r.val) ELSE consumed
    /\ UNCHANGED <<kind, transportVars, conditionVars, codecVars, sessionVars, connVars,
                   netVars, link, sender, sent, credited, enqueued>>

ReceiverAddCredit ==
    /\ kind = "Receiver"
    /\ \E n \in 0..MaxGrant :
         /\ receiver.credit + n <= MaxCredit
         /\ LET r == Receiver_add_credit(receiver, n)
            IN  receiver' = r.obj /\ ret' = Call("Receiver.add_credit", r)
    /\ UNCHANGED <<kind, transportVars, conditionVars, codecVars, sessionVars, connVars,
                   netVars, link, sender, sent, credited, enqueued, consumed>>

ReceiverSimulateReceive ==
    /\ kind = "Receiver"
    /\ Len(enqueued) < MaxQueue
    /\ \E m \in Msgs :
         LET r == Receiver_simulate_receive(receiver, m)
         IN  /\ receiver' = r.obj
             /\ ret' = Call("Receiver.simulate_receive", r)
             /\ enqueued' = Append(enqueued, m)
    /\ UNCHANGED <<kind, transportVars, conditionVars, codecVars, sessionVars, connVars,
                   netVars, link, sender, sent, credited, consumed>>

NextLink ==
    \/ LinkAttach
    \/ LinkDetach
    \/ SenderAttach
    \/ SenderDetach
    \/ SenderSend
    \/ SenderAddCredit
    \/ ReceiverAttach
    \/ ReceiverDetach
    \/ ReceiverReceive
    \/ ReceiverAddCredit
    \/ ReceiverSimulateReceive

SpecLink == InitLink /\ [][NextLink]_vars


(***************************************************************************)
(* The caller of one session and of the senders and receivers it returned. *)
(***************************************************************************)
InitSession ==
    /\ kind = "Session"
    /\ InitObjects

SessionBegin ==
    /\ kind = "Session"
    /\ LET r == Session_begin(session)
       IN  session' = r.obj /\ ret' = Call("Session.begin", r)
    /\ UNCHANGED <<kind, transportVars, conditionVars, codecVars, linkVars, connVars, netVars,
                   endpoints, granted>>

SessionEnd ==
    /\ kind = "Session"
    /\ \E ord \in Orders(DOMAIN session.links) :
         LET r == Session_end(session, ord)
         IN  session' = r.obj /\ ret' = Call("Session.end", r)
    /\ UNCHANGED <<kind, transportVars, conditionVars, codecVars, linkVars, connVars, netVars,
                   endpoints, granted>>

SessionCreateSender ==
    /\ kind = "Session"
    /\ session.next_handle < MaxLinks
    /\ LET r == Session_create_sender(session)
       IN  /\ session' = r.obj
           /\ ret' = Call("Session.create_sender", r)
           /\ endpoints' = IF r.res = "Ok"
                           THEN Append(endpoints, [kind |-> "Sender", obj |-> r.out])
                           ELSE endpoints
           /\ granted' = IF r.res = "Ok"
                         THEN Append(granted, DOMAIN r.obj.links \ DOMAIN session.links)
                         ELSE granted
    /\ UNCHANGED <<kind, transportVars, conditionVars, codecVars, linkVars, connVars, netVars>>

SessionCreateReceiver ==
    /\ kind = "Session"
    /\ session.next_handle < MaxLinks
    /\ LET r == Session_create_receiver(session)
       IN  /\ session' = r.obj
           /\ ret' = Call("Session.create_receiver", r)
           /\ endpoints' = IF r.res = "Ok"
                           THEN Append(endpoints, [kind |-> "Receiver", obj |-> r.out])
                           ELSE endpoints
           /\ granted' = IF r.res = "Ok"
                         THEN Append(granted, DOMAIN r.obj.links \ DOMAIN session.links)
                         ELSE granted
    /\ UNCHANGED <<kind, transportVars, conditionVars, codecVars, linkVars, connVars, netVars>>

\* The caller attaches or detaches a Sender / Receiver it was given.
EndpointAttach ==
    /\ kind = "Session"
    /\ \E i \in DOMAIN endpoints :
         LET r == IF endpoints[i].kind = "Sender"
                  THEN Sender_attach(endpoints[i].obj)
                  ELSE Receiver_attach(endpoints[i].obj)
         IN  /\ endpoints' = [endpoints EXCEPT ![i].obj = r.obj]
             /\ ret' = Call("Endpoint.attach", r)
    /\ UNCHANGED <<kind, transportVars, conditionVars, codecVars, linkVars, connVars, netVars,
                   session, granted>>

EndpointDetach ==
    /\ kind = "Session"
    /\ \E i \in DOMAIN endpoints :
         LET r == IF endpoints[i].kind = "Sender"
                  THEN Sender_detach(endpoints[i].obj)
                  ELSE Receiver_detach(endpoints[i].obj)
         IN  /\ endpoints' = [endpoints EXCEPT ![i].obj = r.obj]
             /\ ret' = Call("Endpoint.detach", r)
    /\ UNCHANGED <<kind, transportVars, conditionVars, codecVars, linkVars, connVars, netVars,
                   session, granted>>

NextSession ==
    \/ SessionBegin
    \/ SessionEnd
    \/ SessionCreateSender
    \/ SessionCreateReceiver
    \/ EndpointAttach
    \/ EndpointDetach

SpecSession == InitSession /\ [][NextSession]_vars

(***************************************************************************)
(* The caller of one connection and of the sessions it returned.           *)
(***************************************************************************)
\* The channel_max values given to the ConnectionBuilder: the smallest ones,
\* and the default.
ChannelMaxes == {0, 1, ConnectionConfig_default.channel_max}

\* The Connection is built from a ConnectionConfig with any channel_max.
InitConnection ==
    /\ kind = "Connection"
    /\ InitOthers
    /\ sender = Sender_new
    /\ \E max \in ChannelMaxes :
         conn = [Connection_new EXCEPT !.config.channel_max = max]

ConnectionOpen ==
    /\ kind = "Connection"
    /\ \E io \in OpenOutcomes :
         LET r == Connection_open(conn, io)
         IN  conn' = r.obj /\ ret' = CallIo("Connection.open", r, io)
    /\ UNCHANGED <<kind, transportVars, conditionVars, codecVars, linkVars, sessionVars,
                   netVars, handles>>

ConnectionClose ==
    /\ kind = "Connection"
    /\ \E io \in CloseOutcomes, ord \in Orders(DOMAIN conn.sessions) :
         LET r == Connection_close(conn, ord, io)
         IN  conn' = r.obj /\ ret' = CallIo("Connection.close", r, io)
    /\ UNCHANGED <<kind, transportVars, conditionVars, codecVars, linkVars, sessionVars,
                   netVars, handles>>

ConnectionCreateSession ==
    /\ kind = "Connection"
    /\ conn.next_channel < MaxSessions
    /\ LET r == Connection_create_session(conn)
       IN  /\ conn' = r.obj
           /\ ret' = Call("Connection.create_session", r)
           /\ handles' = IF r.res = "Ok" THEN Append(handles, r.out) ELSE handles
    /\ UNCHANGED <<kind, transportVars, conditionVars, codecVars, linkVars, sessionVars, netVars>>

\* The caller opens or closes a Session it was given.
HandleOpen ==
    /\ kind = "Connection"
    /\ \E i \in DOMAIN handles :
         LET r == ConnSession_open(handles[i])
         IN  /\ handles' = [handles EXCEPT ![i] = r.obj]
             /\ ret' = Call("Session.open", r)
    /\ UNCHANGED <<kind, transportVars, conditionVars, codecVars, linkVars, sessionVars,
                   netVars, conn>>

HandleClose ==
    /\ kind = "Connection"
    /\ \E i \in DOMAIN handles :
         LET r == ConnSession_close(handles[i])
         IN  /\ handles' = [handles EXCEPT ![i] = r.obj]
             /\ ret' = Call("Session.close", r)
    /\ UNCHANGED <<kind, transportVars, conditionVars, codecVars, linkVars, sessionVars,
                   netVars, conn>>

NextConnection ==
    \/ ConnectionOpen
    \/ ConnectionClose
    \/ ConnectionCreateSession
    \/ HandleOpen
    \/ HandleClose

SpecConnection == InitConnection /\ [][NextConnection]_vars

(***************************************************************************)
(* Properties of links, senders and receivers (checked under SpecLink).    *)
(***************************************************************************)

\* C1: on an Attached Sender, send with credit >= 1 succeeds and lowers the
\* credit by exactly one; send with credit = 0 fails with a Link error and
\* leaves credit, pending deliveries and the next delivery id unchanged.
C1_CreditGate ==
    [][ (ret'.op = "Sender.send" /\ sender.link.state = "Attached") =>
          IF sender.credit >= 1
          THEN /\ ret'.res = "Ok"
               /\ sender'.credit = sender.credit - 1
          ELSE /\ ret'.res = "Link"
               /\ sender'.credit = sender.credit
               /\ sender'.pending_deliveries = sender.pending_deliveries
               /\ sender'.next_delivery_id = sender.next_delivery_id ]_vars

\* C1 witness: one send went through on the single credit granted, the credit
\* is 0 again and the next send has just been refused with a Link error.
C1_Witness ==
    /\ ret.op = "Sender.send" /\ ret.res = "Link"
    /\ sender.link.state = "Attached"
    /\ sender.credit = 0 /\ sent = 1

\* C4: for Link, Sender and Receiver, attach succeeds exactly from Detached
\* and ends in Attached, detach succeeds exactly from Attached and ends in
\* Detached; otherwise the call fails with InvalidState and the state stays.
AttachContract(pre, post) ==
    IF pre.state = "Detached"
    THEN ret'.res = "Ok" /\ post.state = "Attached"
    ELSE ret'.res = "InvalidState" /\ post.state = pre.state

DetachContract(pre, post) ==
    IF pre.state = "Attached"
    THEN ret'.res = "Ok" /\ post.state = "Detached"
    ELSE ret'.res = "InvalidState" /\ post.state = pre.state

C4_AttachDetach ==
    [][ /\ ret'.op = "Link.attach" => AttachContract(link, link')
        /\ ret'.op = "Link.detach" => DetachContract(link, link')
        /\ ret'.op = "Sender.attach" => AttachContract(sender.link, sender'.link)
        /\ ret'.op = "Sender.detach" => DetachContract(sender.link, sender'.link)
        /\ ret'.op = "Receiver.attach" => AttachContract(receiver.link, receiver'.link)
        /\ ret'.op = "Receiver.detach" => DetachContract(receiver.link, receiver'.link)
      ]_vars

\* C4 witness: attach on an already Attached sender was refused.
C4_Witness ==
    /\ ret.op = "Sender.attach" /\ ret.res = "InvalidState"
    /\ sender.link.state = "Attached"

\* C7 (as claimed): delivery_count equals the number of messages consumed
\* through receive().
C7_CountsConsumed ==
    receiver.delivery_count = Len(consumed)

\* C7 (amended): delivery_count increases by exactly one on each
\* simulate_receive and is not changed by receive(), whatever it returns.
C7_CountsArrivals ==
    [][ /\ ret'.op = "Receiver.receive" =>
             receiver'.delivery_count = receiver.delivery_count
        /\ ret'.op = "Receiver.simulate_receive" =>
             receiver'.delivery_count = receiver.delivery_count + 1 ]_vars

\* C7 witness: receive() has returned a message and two were delivered.
C7_Witness ==
    /\ ret.op = "Receiver.receive" /\ ret.res = "Ok" /\ ret.val # 0
    /\ Len(consumed) = 1
    /\ receiver.delivery_count = 2

\* C8: the messages returned by receive() are the enqueued ones, in order and
\* each once (what was enqueued is what was returned followed by what is still
\* queued); on an Attached receiver receive() never fails, and it returns
\* Ok(None) only when the queue is empty.
C8_Fifo ==
    /\ enqueued = consumed \o receiver.message_queue
    /\ (ret.op = "Receiver.receive" /\ receiver.link.state = "Attached")
          => ret.res = "Ok"
    /\ (ret.op = "Receiver.receive" /\ ret.res = "Ok" /\ ret.val = 0)
          => receiver.message_queue = <<>>

\* C8 witness: two different messages came out in the order they went in, and
\* the next receive() returned Ok(None).
C8_Witness ==
    /\ ret.op = "Receiver.receive" /\ ret.res = "Ok" /\ ret.val = 0
    /\ enqueued = <<1, 2>>
    /\ consumed = <<1, 2>>

\* C9: the k-th successful send returns delivery id k, and a failed send
\* returns no id and leaves the next delivery id as it was.
C9_DeliveryIds ==
    [][ ret'.op = "Sender.send" =>
          IF ret'.res = "Ok"
          THEN /\ ret'.val = sent + 1
               /\ sender'.next_delivery_id = sender.next_delivery_id + 1
          ELSE /\ ret'.val = 0
               /\ sender'.next_delivery_id = sender.next_delivery_id ]_vars

\* C9 witness: the second successful send returned id 2.
C9_Witness ==
    /\ ret.op = "Sender.send" /\ ret.res = "Ok" /\ ret.val = 2
    /\ sent = 2

\* C10: send and receive on a link that is not Attached fail with
\* InvalidState, whatever the credit, and change nothing.
C10_NotAttached ==
    [][ /\ (ret'.op = "Sender.send" /\ sender.link.state # "Attached") =>
             (ret'.res = "InvalidState" /\ sender' = sender)
        /\ (ret'.op = "Receiver.receive" /\ receiver.link.state # "Attached") =>
             (ret'.res = "InvalidState" /\ receiver' = receiver) ]_vars

\* C10 witness: a detached sender with zero credit reported InvalidState.
C10_Witness ==
    /\ ret.op = "Sender.send" /\ ret.res = "InvalidState"
    /\ sender.link.state = "Detached"
    /\ sender.credit = 0

(***************************************************************************)
(* Properties of connections (checked under SpecConnection) and of         *)
(* sessions (checked under SpecSession).                                   *)
(***************************************************************************)

\* C2: Connection.open called in a state other than Closed, and
\* Connection.close called in a state other than Open, fail with InvalidState
\* and leave the connection as it was; open called on a Closed connection is
\* not refused with InvalidState.
C2_OpenCloseGuards ==
    [][ /\ (ret'.op = "Connection.open" /\ conn.state # "Closed") =>
             (ret'.res = "InvalidState" /\ conn' = conn)
        /\ (ret'.op = "Connection.open" /\ conn.state = "Closed") =>
             ret'.res # "InvalidState"
        /\ (ret'.op = "Connection.close" /\ conn.state # "Open") =>
             (ret'.res = "InvalidState" /\ conn' = conn) ]_vars

\* C2 witness: open was refused on a connection a failed connect left Opening.
C2_Witness ==
    /\ ret.op = "Connection.open" /\ ret.res = "InvalidState"
    /\ conn.state = "Opening"

\* C3: Session.begin succeeds exactly when the session is Ended and leaves it
\* Active; begin in any other state and end in any state but Active fail with
\* InvalidState and leave the session as it was.
C3_BeginEndGuards ==
    [][ /\ ret'.op = "Session.begin" =>
             IF session.state = "Ended"
             THEN ret'.res = "Ok" /\ session'.state = "Active"
             ELSE ret'.res = "InvalidState" /\ session' = session
        /\ (ret'.op = "Session.end" /\ session.state # "Active") =>
             (ret'.res = "InvalidState" /\ session' = session) ]_vars

\* C3 witness: end was refused on a session that never began.
C3_Witness ==
    /\ ret.op = "Session.end" /\ ret.res = "InvalidState"
    /\ session.state = "Ended"
    /\ session.next_handle = 0

\* C5: Connection.close called on an Open connection with any number of
\* sessions created on it succeeds when the network lets it, empties the
\* session table and leaves the connection Closed.
C5_CloseCascades ==
    [][ (ret'.op = "Connection.close" /\ conn.state = "Open" /\ ret'.io = "ok") =>
          /\ ret'.res = "Ok"
          /\ conn'.sessions = NoSessions
          /\ conn'.state = "Closed" ]_vars

\* C6: Session.end called on an Active session with any number of links
\* created on it succeeds, leaves link_count = 0 and the session Ended.
C6_EndDetaches ==
    [][ (ret'.op = "Session.end" /\ session.state = "Active") =>
          /\ ret'.res = "Ok"
          /\ Session_link_count(session') = 0
          /\ session'.state = "Ended" ]_vars

\* C11: create_sender and create_receiver on a session that is not Active
\* fail with InvalidState and leave next_handle and link_count (indeed the
\* whole session) as they were.
C11_CreateNeedsActive ==
    [][ (ret'.op \in {"Session.create_sender", "Session.create_receiver"}
           /\ session.state # "Active") =>
          /\ ret'.res = "InvalidState"
          /\ session'.next_handle = session.next_handle
          /\ Session_link_count(session') = Session_link_count(session)
          /\ session' = session ]_vars

\* C11 witness: create_sender was refused on a session that never began.
C11_Witness ==
    /\ ret.op = "Session.create_sender" /\ ret.res = "InvalidState"
    /\ session.state = "Ended"
    /\ session.next_handle = 0

\* C12: the n-th successful create_sender / create_receiver registers its link
\* under handle n-1 and under no other key; next_handle and link_count equal
\* the number of successful creations.
C12_HandlesFromZero ==
    /\ \A n \in DOMAIN granted : granted[n] = {n - 1}
    /\ session.next_handle = Len(granted)
    /\ Session_link_count(session) = Len(granted)
    /\ Len(endpoints) = Len(granted)

\* C12 witness: a sender and then a receiver were created; the receiver took
\* handle 1 from the shared counter.
C12_Witness ==
    /\ Len(endpoints) = 2
    /\ endpoints[1].kind = "Sender" /\ endpoints[2].kind = "Receiver"
    /\ granted = <<{0}, {1}>>
    /\ session.next_handle = 2

C15_FailedOpenLeavesClosed ==
    [][ (ret'.op = "Connection.open" /\ conn.state = "Closed" /\ ret'.res # "Ok") =>
          conn'.state = "Closed" ]_vars

(***************************************************************************)
(* The caller of one network connection, and the runtime that runs its     *)
(* keep-alive task.                                                        *)
(***************************************************************************)
InitNetwork ==
    /\ kind = "Network"
    /\ InitObjects

\* The effects of a call on `net` outside the object: the writes reach the
\* wire, the runtime takes the spawned tasks and loses the aborted ones.
NetApply(op, r, io) ==
    /\ net' = r.obj
    /\ ret' = CallIo(op, r, io)
    /\ wire' = wire \o r.wrote
    /\ tasks' = (tasks \cup r.spawn) \ r.abort
    /\ spawned' = spawned + Cardinality(r.spawn)

NetConnect ==
    /\ kind = "Network" /\ ~dropped
    /\ \E io \in ConnectOutcomes :
         NetApply("Network.connect", NetworkConnection_connect(net, io), io)
    /\ UNCHANGED <<kind, transportVars, conditionVars, codecVars, linkVars, sessionVars,
                   connVars, dropped, ticks, calls>>

\* The protocol headers written so far.
HeadersWritten ==
    Cardinality({i \in DOMAIN wire : wire[i].what = "header"})

\* The peer answers a protocol header it received with a header of its own.
NetNegotiateProtocol ==
    /\ kind = "Network" /\ ~dropped
    /\ HeadersWritten < MaxHeaders
    /\ \E io \in NegotiateOutcomes, answer \in PeerHeaders :
         LET r == NetworkConnection_negotiate_protocol(net, io, spawned + 1)
         IN  /\ NetApply("Network.negotiate_protocol", r, io)
             /\ peer' = IF r.wrote = <<>> THEN peer ELSE <<answer>>
    /\ UNCHANGED <<kind, conditionVars, codecVars, linkVars, sessionVars, connVars,
                   frame, bytes, parsed, dropped, ticks, calls>>

\* The frames of the model: those written so far are counted on the wire.
FramesWritten ==
    Cardinality({i \in DOMAIN wire : wire[i].what \in {"frame", "message"}})

NetSendFrame ==
    /\ kind = "Network" /\ ~dropped
    /\ FramesWritten < MaxFrames
    /\ \E io \in FrameOutcomes, channel \in 0..MaxChannel :
         NetApply("Network.send_frame",
                  NetworkConnection_send_frame(net, channel, io), io)
    /\ UNCHANGED <<kind, transportVars, conditionVars, codecVars, linkVars, sessionVars,
                   connVars, dropped, ticks, calls>>

NetReceiveFrame ==
    /\ kind = "Network" /\ ~dropped
    /\ \E io \in FrameOutcomes :
         NetApply("Network.receive_frame",
                  NetworkConnection_receive_frame(net, io), io)
    /\ UNCHANGED <<kind, transportVars, conditionVars, codecVars, linkVars, sessionVars,
                   connVars, dropped, ticks, calls>>

NetSendMessage ==
    /\ kind = "Network" /\ ~dropped
    /\ FramesWritten < MaxFrames
    /\ \E io \in FrameOutcomes, channel \in 0..MaxChannel, encodable \in BOOLEAN :
         NetApply("Network.send_message",
                  NetworkConnection_send_message(net, channel, encodable, io), io)
    /\ UNCHANGED <<kind, transportVars, conditionVars, codecVars, linkVars, sessionVars,
                   connVars, dropped, ticks, calls>>

NetDisconnect ==
    /\ kind = "Network" /\ ~dropped
    /\ \E io \in DisconnectOutcomes :
         NetApply("Network.disconnect", NetworkConnection_disconnect(net, io), io)
    /\ UNCHANGED <<kind, transportVars, conditionVars, codecVars, linkVars, sessionVars,
                   connVars, dropped, ticks, calls>>

NetDrop ==
    /\ kind = "Network" /\ ~dropped
    /\ NetApply("Network.drop", NetworkConnection_drop(net), "none")
    /\ dropped' = TRUE
    /\ UNCHANGED <<kind, transportVars, conditionVars, codecVars, linkVars, sessionVars,
                   connVars, ticks, calls>>

\* A live keep-alive task takes a turn of its loop (a tick and a sleep): it
\* touches nothing of the connection.
KeepAliveTick ==
    /\ kind = "Network"
    /\ tasks # {}
    /\ ticks < MaxTicks
    /\ ticks' = ticks + 1
    /\ UNCHANGED <<kind, transportVars, conditionVars, codecVars, linkVars, sessionVars, connVars, net, dropped, tasks,
                   spawned, wire, calls, ret>>

NextNetwork ==
    \/ NetConnect
    \/ NetNegotiateProtocol
    \/ NetSendFrame
    \/ NetReceiveFrame
    \/ NetSendMessage
    \/ NetDisconnect
    \/ NetDrop
    \/ KeepAliveTick

SpecNetwork == InitNetwork /\ [][NextNetwork]_vars

\* The caller of next_channel() on a fresh network connection.
InitChannel ==
    /\ kind = "Channel"
    /\ InitObjects

NetNextChannel ==
    /\ kind = "Channel"
    /\ calls < MaxChannelCalls
    /\ NetApply("Network.next_channel", NetworkConnection_next_channel(net), "none")
    /\ calls' = calls + 1
    /\ UNCHANGED <<kind, transportVars, conditionVars, codecVars, linkVars, sessionVars,
                   connVars, dropped, ticks>>

NextChannel == NetNextChannel

SpecChannel == InitChannel /\ [][NextChannel]_vars

(***************************************************************************)
(* Properties of network connections (checked under SpecChannel and        *)
(* SpecNetwork).                                                           *)
(***************************************************************************)

\* C13: the i-th next_channel() call (i = 0, 1, 2, ...) on a fresh connection
\* returns i mod 65536, and the counter is the number of calls mod 65536.
C13_WrappingChannel ==
    /\ net.next_channel = calls % U16
    /\ ret.op = "Network.next_channel" =>
         (ret.res = "Ok" /\ ret.val = (calls - 1) % U16)

\* C13 witness: the call after the one that returned 65535 returned 0.
C13_Witness ==
    /\ ret.op = "Network.next_channel"
    /\ calls = U16 + 1
    /\ ret.val = 0

\* C16: connect when not Disconnected, negotiate_protocol when not Connected,
\* send_frame / receive_frame / send_message (of a message that encodes) when
\* not Ready are rejected with InvalidState.
C16_WrongStateInvalidState ==
    [][ /\ (ret'.op = "Network.connect" /\ net.state # "Disconnected") =>
             ret'.res = "InvalidState"
        /\ (ret'.op = "Network.negotiate_protocol" /\ net.state # "Connected") =>
             ret'.res = "InvalidState"
        /\ (ret'.op \in {"Network.send_frame", "Network.receive_frame"}
              /\ net.state # "Ready") =>
             ret'.res = "InvalidState"
        /\ (ret'.op = "Network.send_message" /\ net.state # "Ready"
              /\ ret'.res # "Encoding") =>
             ret'.res = "InvalidState" ]_vars

\* C17: disconnect called in Ready (the network letting it through) aborts the
\* keep-alive task, writes a Close frame on channel 0 and then shuts the
\* transport down, ending Closed; called in Connected it writes no Close frame.
C17_DisconnectSendsClose ==
    [][ /\ (ret'.op = "Network.disconnect" /\ net.state = "Ready" /\ ret'.io = "ok") =>
             /\ wire' = wire \o <<Written("close", 0), Written("shutdown", 0)>>
             /\ tasks' = {}
             /\ net'.state = "Closed"
        /\ (ret'.op = "Network.disconnect" /\ net.state = "Connected") =>
             \A i \in DOMAIN wire' : wire'[i].what # "close" ]_vars

\* C18: disconnect on a Disconnected connection returns Ok, writes nothing and
\* leaves the state, the transport, the keep-alive handle and the tasks alone.
C18_DisconnectIdempotent ==
    [][ (ret'.op = "Network.disconnect" /\ net.state = "Disconnected") =>
          /\ ret'.res = "Ok"
          /\ net' = net
          /\ net'.state = "Disconnected"
          /\ wire' = wire
          /\ tasks' = tasks ]_vars

\* C18 witness: disconnect has returned Ok on a connection that never connected.
C18_Witness ==
    /\ ret.op = "Network.disconnect" /\ ret.res = "Ok"
    /\ net.state = "Disconnected"
    /\ wire = <<>>

\* C19: at most one keep-alive task is alive, it is the one the connection
\* holds the handle of, and only while the connection is Ready and not
\* dropped; one is alive once negotiate_protocol has succeeded, none after
\* disconnect has returned or the connection was dropped; tasks are spawned by
\* nothing else.
C19_KeepAliveLifecycle ==
    /\ Cardinality(tasks) <= 1
    /\ tasks # {} =>
         (net.state = "Ready" /\ ~dropped /\ tasks = {net.keep_alive_handle})
    /\ (ret.op = "Network.negotiate_protocol" /\ ret.res = "Ok") => tasks # {}
    /\ ret.op \in {"Network.disconnect", "Network.drop"} => tasks = {}
    /\ dropped => tasks = {}
    /\ spawned = 0 => tasks = {}

\* C19 witness: a keep-alive task was spawned, took a turn, and is gone after
\* disconnect returned.
C19_Witness ==
    /\ ret.op = "Network.disconnect" /\ ret.res = "Ok"
    /\ spawned = 1 /\ ticks = 1
    /\ tasks = {}
    /\ net.state = "Closed"

(***************************************************************************)
(* The caller of one encoder and of the decoder made of what it wrote.     *)
(***************************************************************************)
InitCodec ==
    /\ kind = "Codec"
    /\ InitObjects

\* encoder.encode_value(&value)
CodecEncodeValue ==
    /\ kind \in CodecKinds /\ stage = "encoding"
    /\ Len(encoded) < CodecLimit
    /\ \E i \in DOMAIN CodecInputs, ord \in Orders(Symbols) :
         /\ encoder' = encoder \o encode_value(CodecInputs[i], ord)
         /\ encoded' = Append(encoded, CodecInputs[i])
    /\ ret' = Call("Encoder.encode_value", Result(0, "Ok", 0))
    /\ UNCHANGED <<kind, transportVars, conditionVars, linkVars, sessionVars, connVars,
                   netVars, stage, decoder, decoded>>

\* Decoder::new(encoder.finish())
CodecFinish ==
    /\ kind \in CodecKinds \cup MessageKinds /\ stage = "encoding"
    /\ stage' = "decoding"
    /\ decoder' = encoder
    /\ ret' = Call("Decoder.new", Result(0, "Ok", 0))
    /\ UNCHANGED <<kind, transportVars, conditionVars, linkVars, sessionVars, connVars,
                   netVars, encoder, encoded, decoded>>

\* decoder.decode_value(), called until one call more than there are values.
CodecDecodeValue ==
    /\ kind \in CodecKinds \cup {"Decoder"} /\ stage = "decoding"
    /\ Len(decoded) <= Len(encoded)
    /\ \E r \in {decode_value(decoder)} :
           /\ decoder' = r.rest
           /\ decoded' = Append(decoded, [res |-> r.res, val |-> r.val])
           /\ stage' = IF r.res = "Panic" THEN "panicked" ELSE stage
           /\ ret' = Call("Decoder.decode_value", Result(0, r.res, 0))
    /\ UNCHANGED <<kind, transportVars, conditionVars, linkVars, sessionVars, connVars,
                   netVars, encoder, encoded>>

NextCodec ==
    \/ CodecEncodeValue
    \/ CodecFinish
    \/ CodecDecodeValue

SpecCodec == InitCodec /\ [][NextCodec]_vars

\* The caller that makes a decoder of octets that came from elsewhere and
\* calls decode_value on it: Decoder::new(data).
DecoderNew ==
    /\ kind = "Decoder" /\ stage = "encoding"
    /\ \E data \in DecoderInputs : decoder' = data
    /\ stage' = "decoding"
    /\ ret' = Call("Decoder.new", Result(0, "Ok", 0))
    /\ UNCHANGED <<kind, transportVars, conditionVars, linkVars, sessionVars, connVars,
                   netVars, encoder, encoded, decoded>>

InitDecoder ==
    /\ kind = "Decoder"
    /\ InitObjects

NextDecoder ==
    \/ DecoderNew
    \/ CodecDecodeValue

SpecDecoder == InitDecoder /\ [][NextDecoder]_vars

\* The caller of encode_message and of decode_message on what it wrote
\* (NetworkConnection::send_message and receive_message on the two ends).
InitMessage ==
    /\ kind = "Message"
    /\ InitObjects

\* encoder.encode_message(&message) on a new encoder; the caller gives up
\* on an error.
MessageEncode ==
    /\ kind = "Message" /\ stage = "encoding" /\ encoded = <<>>
    /\ \E h \in DOMAIN HeaderOpts, da \in DOMAIN MapOpts, ma \in DOMAIN MapOpts,
          p \in DOMAIN PropertiesOpts, ap \in DOMAIN MapOpts, b \in DOMAIN BodyOpts,
          f \in DOMAIN MapOpts :
         LET message == [header |-> HeaderOpts[h], delivery_annotations |-> MapOpts[da],
                         message_annotations |-> MapOpts[ma], properties |-> PropertiesOpts[p],
                         application_properties |-> MapOpts[ap], body |-> BodyOpts[b],
                         footer |-> MapOpts[f]]
             hkeys == IF h = 1 THEN {} ELSE DOMAIN SectionMap(HeaderOpts[h][1], HeaderFields)
             pkeys == IF p = 1 THEN {}
                      ELSE DOMAIN SectionMap(PropertiesOpts[p][1], PropertiesFields)
         IN  \E ordH \in Orders(hkeys), ordP \in Orders(pkeys), ord \in Orders(Symbols) :
                LET r == encode_message(message, ordH, ordP, ord)
                IN  /\ encoder' = r.octets
                    /\ encoded' = <<message>>
                    /\ stage' = IF r.res = "Ok" THEN stage ELSE "failed"
                    /\ ret' = Call("Encoder.encode_message", Result(0, r.res, 0))
    /\ UNCHANGED <<kind, transportVars, conditionVars, linkVars, sessionVars, connVars,
                   netVars, decoder, decoded>>

\* decoder.decode_message()
MessageDecode ==
    /\ kind = "Message" /\ stage = "decoding" /\ decoded = <<>>
    /\ \E r \in {decode_message(decoder)} :
           /\ decoder' = r.rest
           /\ decoded' = <<[res |-> r.res, val |-> r.val]>>
           /\ stage' = IF r.res = "Panic" THEN "panicked" ELSE stage
           /\ ret' = Call("Decoder.decode_message", Result(0, r.res, 0))
    /\ UNCHANGED <<kind, transportVars, conditionVars, linkVars, sessionVars, connVars,
                   netVars, encoder, encoded>>

NextMessage ==
    \/ MessageEncode
    \/ CodecFinish
    \/ MessageDecode

SpecMessage == InitMessage /\ [][NextMessage]_vars

\* The caller that writes several values to one encoder and decodes them
\* one by one.
InitStream ==
    /\ kind = "Stream"
    /\ InitObjects

SpecStream == InitStream /\ [][NextCodec]_vars

(***************************************************************************)
(* Properties of the codec (checked under SpecCodec).                      *)
(***************************************************************************)

\* The decoder has returned, in order, the values the encoder was given.
InStep ==
    /\ Len(decoded) < Len(encoded)
    /\ \A i \in DOMAIN decoded :
         decoded[i].res = "Ok" /\ decoded[i].val = encoded[i]

\* C20: decode_value on a decoder that stands at the octets encode_value
\* wrote for a value v returns Ok and v, whatever the variant of v.
C20_ValueRoundTrip ==
    [][ (ret'.op = "Decoder.decode_value" /\ InStep) =>
          /\ ret'.res = "Ok"
          /\ decoded'[Len(decoded')].val = encoded[Len(decoded')] ]_vars

\* The octets encode_value wrote for the first n values.
RECURSIVE OctetsOf(_)
OctetsOf(n) ==
    IF n = 0 THEN 0
    ELSE OctetsOf(n - 1) + Len(encode_value(encoded[n], CHOOSE ord \in Orders(Symbols) : TRUE))

\* C22: the k-th decode_value call on the octets of v1..vn returns Ok and vk,
\* leaves exactly the octets of the values after vk in the decoder, and after
\* the n-th call nothing remains.
C22_StreamingDecode ==
    [][ (ret'.op = "Decoder.decode_value" /\ InStep) =>
          /\ decoded'[Len(decoded')] = [res |-> "Ok", val |-> encoded[Len(decoded')]]
          /\ decoder' = Drop(encoder, OctetsOf(Len(decoded')))
          /\ (Len(decoded') = Len(encoded) => decoder' = <<>>) ]_vars

\* The value the last encode_value call was given, and the octets it wrote.
LastEncoded == encoded'[Len(encoded')]

WrittenOctets == Drop(encoder', Len(encoder))

\* C23: a Binary / String / Symbol of at most 255 octets is written as type
\* code 0xa0 / 0xa1 / 0xa3, one length octet and the payload; one of 256
\* octets or more as 0xb0 / 0xb1 / 0xb3, four big-endian length octets and the
\* payload; an empty list as 0x45 and an empty map as 0xc1 0x00.
C23_Compactness ==
    [][ ret'.op = "Encoder.encode_value" =>
          LET v == LastEncoded
              w == WrittenOctets
              code8 == [Binary |-> 160, String |-> 161, Symbol |-> 163]
              code32 == [Binary |-> 176, String |-> 177, Symbol |-> 179]
          IN  /\ (v.t \in DOMAIN code8 /\ Len(v.v) <= 255) =>
                   w = <<code8[v.t], Len(v.v)>> \o v.v
              /\ (v.t \in DOMAIN code8 /\ Len(v.v) >= 256) =>
                   /\ Len(w) = 5 + Len(v.v)
                   /\ w[1] = code32[v.t]
                   /\ w[2] * 16777216 + w[3] * 65536 + w[4] * 256 + w[5] = Len(v.v)
                   /\ Drop(w, 5) = v.v
              /\ (v.t = "List" /\ Len(v.v) = 0) => w = <<69>>
              /\ (v.t = "Map" /\ DOMAIN v.v = {}) => w = <<193, 0>> ]_vars

\* C23 witness: a Binary of exactly 255 octets was written in the one-octet
\* form.
C23_Witness ==
    /\ ret.op = "Encoder.encode_value"
    /\ Len(encoded) = 1 /\ encoded[1].t = "Binary" /\ Len(encoded[1].v) = 255
    /\ encoder[1] = 160 /\ encoder[2] = 255 /\ Len(encoder) = 257

(***************************************************************************)
(* Properties of the decoder on octets of any origin (checked under        *)
(* SpecDecoder).                                                           *)
(***************************************************************************)

\* C24: decode_value returns a value or a Decoding error on every octet
\* sequence and never aborts; an empty buffer, a List8 / Map8 type code with
\* no count octet, a List32 / Map32 type code with fewer than four count
\* octets, an Array8 / Array32 type code with too few size and count octets
\* and a Char that is no scalar value are Decoding errors.
C24_DecoderTotal ==
    [][ (ret'.op = "Decoder.decode_value" /\ kind = "Decoder") =>
          /\ ret'.res \in {"Ok", "Decoding"}
          /\ decoder = <<>> => ret'.res = "Decoding"
          /\ (decoder # <<>> /\ decoder[1] \in {192, 193} /\ Len(decoder) < 2) =>
               ret'.res = "Decoding"
          /\ (decoder # <<>> /\ decoder[1] \in {208, 209} /\ Len(decoder) < 5) =>
               ret'.res = "Decoding"
          /\ (decoder # <<>> /\ decoder[1] = 224 /\ Len(decoder) < 3) =>
               ret'.res = "Decoding"
          /\ (decoder # <<>> /\ decoder[1] = 240 /\ Len(decoder) < 9) =>
               ret'.res = "Decoding"
          /\ decoder \in {<<115, 0, 0, 216, 0>>, <<115, 0, 17, 0, 0>>} =>
               ret'.res = "Decoding" ]_vars

(***************************************************************************)
(* Properties of the message encoding (checked under SpecMessage).         *)
(***************************************************************************)

\* C21: decode_message on the octets encode_message wrote for a message m
\* returns Ok and m, whichever of the seven sections m has.
C21_MessageRoundTrip ==
    [][ ret'.op = "Decoder.decode_message" =>
          /\ ret'.res = "Ok"
          /\ decoded'[1].val = encoded[1] ]_vars

\* The sections of the message m that are present, in the order Header,
\* DeliveryAnnotations, MessageAnnotations, Properties, ApplicationProperties,
\* Body, Footer, each as the one value that stands for it (m has no body or a
\* Value or Data body).
MapSection(option) == IF option = <<>> THEN <<>> ELSE <<Val("Map", option[1])>>

PresentSections(m) ==
    (IF m.header = <<>> THEN <<>> ELSE <<Val("Map", SectionMap(m.header[1], HeaderFields))>>)
    \o MapSection(m.delivery_annotations)
    \o MapSection(m.message_annotations)
    \o (IF m.properties = <<>> THEN <<>>
        ELSE <<Val("Map", SectionMap(m.properties[1], PropertiesFields))>>)
    \o MapSection(m.application_properties)
    \o (IF m.body = <<>> THEN <<>>
        ELSE IF m.body[1].k = "Data" THEN <<Val("Binary", m.body[1].v)>>
        ELSE <<m.body[1].v>>)
    \o MapSection(m.footer)

\* C25: what encode_message writes for a message (with no body or a Value or
\* Data body) is one encoded value for each present section and nothing else,
\* in the order Header, DeliveryAnnotations, MessageAnnotations, Properties,
\* ApplicationProperties, Body, Footer.
C25_SectionOrder ==
    [][ (ret'.op = "Encoder.encode_message"
           /\ (encoded'[1].body = <<>> \/ encoded'[1].body[1].k \in {"Value", "Data"})) =>
          LET sections == PresentSections(encoded'[1])
              r == DecodeItems(encoder', Len(sections))
          IN  /\ ret'.res = "Ok"
              /\ r.res = "Ok"
              /\ r.rest = <<>>
              /\ r.val = sections ]_vars

(***************************************************************************)
(* transport::FrameHeader and transport::Frame                             *)
(***************************************************************************)
\* size is a u32, kept as its two 16-bit limbs, high limb first.
FrameHeader_new(size, frame_type, channel) ==
    [size |-> size, data_offset |-> 2, frame_type |-> frame_type, channel |-> channel]

FrameHeader_encode(h) ==
    PutLimbs(h.size) \o <<h.data_offset, h.frame_type>> \o PutLimbs(<<h.channel>>)

\* A plausible slip: the channel read low octet first.
FrameHeader_decode_LittleEndian(octets) ==
    IF Len(octets) < 8
    THEN Result(0, "Decoding", 0)
    ELSE Result(0, "Ok",
                [size |-> GetLimbs(octets, 2), data_offset |-> octets[5],
                 frame_type |-> octets[6],
                 channel |-> octets[8] * 256 + octets[7]])

FrameHeader_decode(octets) ==
    IF Len(octets) < 8
    THEN Result(0, "Decoding", 0)
    ELSE Result(0, "Ok",
                [size |-> GetLimbs(octets, 2), data_offset |-> octets[5],
                 frame_type |-> octets[6],
                 channel |-> GetLimbs(Drop(octets, 6), 1)[1]])

Frame_new(header, payload) == [header |-> header, payload |-> payload]

Frame_encode(f) == FrameHeader_encode(f.header) \o f.payload

Frame_decode(octets) ==
    IF Len(octets) < 8
    THEN Result(0, "Decoding", 0)
    ELSE LET header == FrameHeader_decode(SubSeq(octets, 1, 8))
         IN  IF header.res # "Ok" THEN header
             ELSE Result(0, "Ok", Frame_new(header.val, Drop(octets, 8)))

\* The frames given to Frame::encode: sizes, types and channels at both ends
\* of their ranges, whether or not the size agrees with the payload, and
\* every payload of up to MaxPayload octets.
MaxPayload == 2

FrameSizes == {<<0, 0>>, <<0, 1>>, <<0, 8>>, <<0, 65535>>, <<1, 0>>, <<65535, 65535>>}
FrameTypes == {0, 1, 255}
FrameChannels == {0, 1, 2, 255, 256, 32767, 65535}
PayloadOctets == {0, 170, 255}

RECURSIVE Payloads(_)
Payloads(n) ==
    IF n = 0 THEN {<<>>}
    ELSE LET shorter == Payloads(n - 1)
         IN  shorter \cup {Append(q, o) : q \in {p \in shorter : Len(p) = n - 1},
                                          o \in PayloadOctets}

Frames ==
    {Frame_new(FrameHeader_new(size, type, channel), payload) :
       size \in FrameSizes, type \in FrameTypes, channel \in FrameChannels,
       payload \in Payloads(MaxPayload)}

(***************************************************************************)
(* The caller of Frame::encode and Frame::decode.                          *)
(***************************************************************************)
InitFrame ==
    /\ kind = "Frame"
    /\ InitObjects

\* The caller encodes one frame.
FrameEncode ==
    /\ kind = "Frame"
    /\ frame = <<>>
    /\ \E f \in Frames :
         /\ frame' = <<f>>
         /\ bytes' = Frame_encode(f)
         /\ ret' = Call("Frame.encode", Result(0, "Ok", 0))
    /\ UNCHANGED <<kind, linkVars, sessionVars, connVars, netVars, codecVars, conditionVars,
                   parsed, peer>>

\* Frame::decode of the first n octets the caller holds.
FrameDecode ==
    /\ kind = "Frame"
    /\ \E n \in 0..Len(bytes) :
         LET r == Frame_decode(SubSeq(bytes, 1, n))
         IN  /\ bytes' = SubSeq(bytes, 1, n)
             /\ parsed' = IF r.res = "Ok" THEN <<r.val>> ELSE <<>>
             /\ ret' = Call("Frame.decode", Result(0, r.res, 0))
    /\ UNCHANGED <<kind, linkVars, sessionVars, connVars, netVars, codecVars, conditionVars,
                   frame, peer>>

NextFrame ==
    \/ FrameEncode
    \/ FrameDecode

SpecFrame == InitFrame /\ [][NextFrame]_vars

\* C26: Frame::encode of a frame gives 8 octets and the payload; Frame::decode
\* of those octets returns the frame, equal in size, data_offset, frame_type,
\* channel and payload; fewer than 8 octets decode to a Decoding error.
C26_FrameRoundTrip ==
    [][ /\ ret'.op = "Frame.encode" =>
             Len(bytes') = 8 + Len(frame'[1].payload)
        /\ (ret'.op = "Frame.decode" /\ frame # <<>> /\ bytes' = Frame_encode(frame[1])) =>
             /\ ret'.res = "Ok"
             /\ Len(parsed') = 1
             /\ parsed'[1].header.size = frame[1].header.size
             /\ parsed'[1].header.data_offset = 2
             /\ parsed'[1].header.frame_type = frame[1].header.frame_type
             /\ parsed'[1].header.channel = frame[1].header.channel
             /\ parsed'[1].payload = frame[1].payload
        /\ (ret'.op = "Frame.decode" /\ Len(bytes') < 8) =>
             ret'.res = "Decoding" /\ parsed' = <<>> ]_vars

\* A frame of the largest size, on a channel with two different octets, with
\* a payload, came back from Frame::decode.
C26_Witness ==
    /\ ret.op = "Frame.decode" /\ ret.res = "Ok"
    /\ frame # <<>>
    /\ bytes = Frame_encode(frame[1])
    /\ frame[1].header.size = <<65535, 65535>>
    /\ frame[1].header.channel = 256
    /\ Len(frame[1].payload) = MaxPayload
    /\ parsed = frame

(***************************************************************************)
(* condition::AmqpCondition                                                *)
(***************************************************************************)
\* A named condition is [k |-> its variant, s |-> ""]; Custom(s) keeps s.
Named(k) == [k |-> k, s |-> ""]
Custom(s) == [k |-> "Custom", s |-> s]

\* The arms of as_str, variant by variant.
AsStrArms ==
    [Ok |-> "amqp:ok",
     Accepted |-> "amqp:accepted",
     Released |-> "amqp:released",
     Modified |-> "amqp:modified",
     AmqpErrorConnectionForced |-> "amqp:connection:forced",
     AmqpErrorFramingError |-> "amqp:connection:framing-error",
     AmqpErrorConnectionRedirect |-> "amqp:connection:redirect",
     AmqpErrorWindowViolation |-> "amqp:session:window-violation",
     AmqpErrorErrantLink |-> "amqp:session:errant-link",
     AmqpErrorHandleInUse |-> "amqp:session:handle-in-use",
     AmqpErrorDetachForced |-> "amqp:session:detach-forced",
     AmqpErrorTransferLimitExceeded |-> "amqp:session:transfer-limit-exceeded",
     AmqpErrorMessageSizeExceeded |-> "amqp:link:message-size-exceeded",
     AmqpErrorLinkRedirect |-> "amqp:link:redirect",
     AmqpErrorTransferRefused |-> "amqp:link:transfer-refused",
     AmqpErrorStolen |-> "amqp:link:stolen",
     AmqpErrorResourceDeleted |-> "amqp:resource:deleted",
     AmqpErrorResourceLimitExceeded |-> "amqp:resource:limit-exceeded",
     AmqpErrorResourceLocked |-> "amqp:resource:locked",
     AmqpErrorPreconditionFailed |-> "amqp:resource:precondition-failed",
     AmqpErrorResourceNameCollision |-> "amqp:resource:name-collision",
     AmqpErrorUnauthorizedAccess |-> "amqp:access:unauthorized",
     AmqpErrorNotAllowed |-> "amqp:access:not-allowed",
     AmqpErrorNotImplemented |-> "amqp:not-implemented",
     AmqpErrorNotModified |-> "amqp:not-modified",
     AmqpErrorDecodeError |-> "amqp:decode-error",
     AmqpErrorInvalidField |-> "amqp:invalid-field",
     AmqpErrorNotAccepted |-> "amqp:not-accepted",
     AmqpErrorRejected |-> "amqp:rejected",
     AmqpErrorInternalError |-> "amqp:internal-error",
     AmqpErrorIllegalState |-> "amqp:illegal-state"]

AmqpCondition_as_str(c) ==
    IF c.k = "Custom" THEN c.s ELSE AsStrArms[c.k]

\* The arms of From<&str>, string by string.
FromArms ==
       ("amqp:ok" :> "Ok")
    @@ ("amqp:accepted" :> "Accepted")
    @@ ("amqp:released" :> "Released")
    @@ ("amqp:modified" :> "Modified")
    @@ ("amqp:connection:forced" :> "AmqpErrorConnectionForced")
    @@ ("amqp:connection:framing-error" :> "AmqpErrorFramingError")
    @@ ("amqp:connection:redirect" :> "AmqpErrorConnectionRedirect")
    @@ ("amqp:session:window-violation" :> "AmqpErrorWindowViolation")
    @@ ("amqp:session:errant-link" :> "AmqpErrorErrantLink")
    @@ ("amqp:session:handle-in-use" :> "AmqpErrorHandleInUse")
    @@ ("amqp:session:detach-forced" :> "AmqpErrorDetachForced")
    @@ ("amqp:session:transfer-limit-exceeded" :> "AmqpErrorTransferLimitExceeded")
    @@ ("amqp:link:message-size-exceeded" :> "AmqpErrorMessageSizeExceeded")
    @@ ("amqp:link:redirect" :> "AmqpErrorLinkRedirect")
    @@ ("amqp:link:transfer-refused" :> "AmqpErrorTransferRefused")
    @@ ("amqp:link:stolen" :> "AmqpErrorStolen")
    @@ ("amqp:resource:deleted" :> "AmqpErrorResourceDeleted")
    @@ ("amqp:resource:limit-exceeded" :> "AmqpErrorResourceLimitExceeded")
    @@ ("amqp:resource:locked" :> "AmqpErrorResourceLocked")
    @@ ("amqp:resource:precondition-failed" :> "AmqpErrorPreconditionFailed")
    @@ ("amqp:resource:name-collision" :> "AmqpErrorResourceNameCollision")
    @@ ("amqp:access:unauthorized" :> "AmqpErrorUnauthorizedAccess")
    @@ ("amqp:access:not-allowed" :> "AmqpErrorNotAllowed")
    @@ ("amqp:not-implemented" :> "AmqpErrorNotImplemented")
    @@ ("amqp:not-modified" :> "AmqpErrorNotModified")
    @@ ("amqp:decode-error" :> "AmqpErrorDecodeError")
    @@ ("amqp:invalid-field" :> "AmqpErrorInvalidField")
    @@ ("amqp:not-accepted" :> "AmqpErrorNotAccepted")
    @@ ("amqp:rejected" :> "AmqpErrorRejected")
    @@ ("amqp:internal-error" :> "AmqpErrorInternalError")
    @@ ("amqp:illegal-state" :> "AmqpErrorIllegalState")

\* A plausible slip: a string with no arm becomes an internal error.
AmqpCondition_from_NoCustom(s) ==
    IF s \in DOMAIN FromArms THEN Named(FromArms[s]) ELSE Named("AmqpErrorInternalError")

AmqpCondition_from(s) ==
    IF s \in DOMAIN FromArms THEN Named(FromArms[s]) ELSE Custom(s)

\* The named conditions and their canonical names.
NamedConditions == {Named(k) : k \in DOMAIN AsStrArms}
CanonicalNames == {AsStrArms[k] : k \in DOMAIN AsStrArms}

\* The strings given to from(): every canonical name, and strings that are
\* not one: the empty string, other cases, a trailing space, a prefix, a
\* variant's Rust name, names outside the amqp: namespace.
OtherStrings ==
    {"", "custom:test", "unknown:condition", "amqp:OK", "AMQP:ok", "amqp:ok ", "amqp:",
     "ok", "Ok", "AmqpErrorInternalError", "amqp:connection", "amqp:error"}

ConditionStrings == CanonicalNames \cup OtherStrings

(***************************************************************************)
(* The caller of AmqpCondition::from and as_str.                           *)
(***************************************************************************)
InitCondition ==
    /\ kind = "Condition"
    /\ InitObjects

\* The caller writes a condition down: a named one, or Custom of a string.
ConditionNew ==
    /\ kind = "Condition"
    /\ \E c \in NamedConditions \cup {Custom(s) : s \in ConditionStrings} :
         /\ condition' = <<c>>
         /\ text' = <<>>
         /\ ret' = Call("AmqpCondition.new", Result(0, "Ok", 0))
    /\ UNCHANGED <<kind, linkVars, sessionVars, connVars, netVars, codecVars, transportVars>>

\* AmqpCondition::from(s): `text` keeps s.
ConditionFrom ==
    /\ kind = "Condition"
    /\ \E s \in ConditionStrings :
         /\ condition' = <<AmqpCondition_from(s)>>
         /\ text' = <<s>>
         /\ ret' = Call("AmqpCondition.from", Result(0, "Ok", 0))
    /\ UNCHANGED <<kind, linkVars, sessionVars, connVars, netVars, codecVars, transportVars>>

ConditionAsStr ==
    /\ kind = "Condition"
    /\ condition # <<>>
    /\ text' = <<AmqpCondition_as_str(condition[1])>>
    /\ ret' = Call("AmqpCondition.as_str", Result(0, "Ok", 0))
    /\ UNCHANGED <<kind, linkVars, sessionVars, connVars, netVars, codecVars, transportVars,
                   condition>>

NextCondition ==
    \/ ConditionNew
    \/ ConditionFrom
    \/ ConditionAsStr

SpecCondition == InitCondition /\ [][NextCondition]_vars

\* C27: from(s).as_str() = s for every string s; from(c.as_str()) = c for
\* every named condition c; a string that is not a canonical name parses to
\* Custom of that string.
C27_ConditionParsing ==
    [][ /\ (ret'.op = "AmqpCondition.as_str" /\ ret.op = "AmqpCondition.from") =>
             text' = text
        /\ (ret'.op = "AmqpCondition.from" /\ ret.op = "AmqpCondition.as_str"
              /\ text' = text /\ condition[1] \in NamedConditions) =>
             condition' = condition
        /\ (ret'.op = "AmqpCondition.from" /\ text'[1] \notin CanonicalNames) =>
             condition' = <<Custom(text'[1])>> ]_vars

\* A named condition was written down, turned into its name, and parsed back.
C27_Witness ==
    /\ ret.op = "AmqpCondition.from"
    /\ condition = <<Named("AmqpErrorIllegalState")>>
    /\ text = <<"amqp:illegal-state">>

\* C28: a successful send on a Sender whose sender settle mode is Settled
\* leaves the delivery out of pending_deliveries; with mode Unsettled the
\* delivery is pending after send.
C28_SettledAtSend ==
    [][ (ret'.op = "Sender.send" /\ ret'.res = "Ok") =>
          /\ sender.link.config.sender_settle_mode = "Settled" =>
               ret'.val \notin DOMAIN sender'.pending_deliveries
          /\ sender.link.config.sender_settle_mode = "Unsettled" =>
               ret'.val \in DOMAIN sender'.pending_deliveries ]_vars

(***************************************************************************)
(* The caller of ProtocolNegotiator::negotiate_amqp on transports of its   *)
(* own.                                                                    *)
(***************************************************************************)
InitNegotiator ==
    /\ kind = "Negotiator"
    /\ InitObjects

NegotiateAmqp ==
    /\ kind = "Negotiator"
    /\ HeadersWritten < MaxHeaders
    /\ \E io \in NegotiateAmqpOutcomes, answer \in PeerHeaders :
         LET r == ProtocolNegotiator_negotiate_amqp(io, answer)
         IN  /\ wire' = wire \o r.wrote
             /\ peer' = IF r.wrote = <<>> THEN peer ELSE <<answer>>
             /\ ret' = CallIo("ProtocolNegotiator.negotiate_amqp", r, io)
    /\ UNCHANGED <<kind, conditionVars, codecVars, linkVars, sessionVars, connVars,
                   frame, bytes, parsed, net, dropped, tasks, spawned, ticks, calls>>

NextNegotiator == NegotiateAmqp

SpecNegotiator == InitNegotiator /\ [][NextNegotiator]_vars

\* C29: protocol negotiation succeeds (negotiate_protocol or negotiate_amqp
\* returns Ok, the NetworkConnection becomes Ready) only if the header the
\* peer answered with is the AMQP header that was sent; with any other
\* answer the call fails and the connection is not Ready.
C29_HeaderGuardsReady ==
    [][ /\ (ret'.op \in {"Network.negotiate_protocol", "ProtocolNegotiator.negotiate_amqp"}
              /\ ret'.res = "Ok") =>
             peer' = <<AMQP_HEADER>>
        /\ (ret'.op = "Network.negotiate_protocol" /\ peer' # <<AMQP_HEADER>>) =>
             net'.state # "Ready" ]_vars

\* The NetworkConnections one call on n can leave behind, whatever the
\* arguments and whatever the network does (next_channel, which touches the
\* channel counter only, left aside).
NetSuccessors(n) ==
    {NetworkConnection_connect(n, io).obj : io \in ConnectOutcomes}
      \cup {NetworkConnection_negotiate_protocol(n, io, 1).obj : io \in NegotiateOutcomes}
      \cup {NetworkConnection_send_frame(n, channel, io).obj :
              channel \in 0..MaxChannel, io \in FrameOutcomes}
      \cup {NetworkConnection_receive_frame(n, io).obj : io \in FrameOutcomes}
      \cup {NetworkConnection_send_message(n, channel, encodable, io).obj :
              channel \in 0..MaxChannel, encodable \in BOOLEAN, io \in FrameOutcomes}
      \cup {NetworkConnection_disconnect(n, io).obj : io \in DisconnectOutcomes}

\* The NetworkConnections some sequence of calls leads to from those in seen.
RECURSIVE NetReachable(_)
NetReachable(seen) ==
    LET more == seen \cup UNION {NetSuccessors(n) : n \in seen}
    IN  IF more = seen THEN seen ELSE NetReachable(more)

\* C30: from every non-terminal state of the NetworkConnection some execution,
\* through a failing operation, leads to the Error state.
C30_ErrorReachable ==
    (kind = "Network" /\ net.state \notin {"Closed", "Error"}) =>
       \E n \in NetReachable({[net EXCEPT !.next_channel = 0]}) : n.state = "Error"

\* C31: a connect() that follows a failed connect() (timeout or transport
\* error) on the same NetworkConnection, with no call in between, is
\* accepted: when the peer is reachable it returns Ok and the state is
\* Connected, and it never fails on the state check.
C31_ConnectAgain ==
    [][ (ret.op = "Network.connect" /\ ret.res \in {"Timeout", "Transport"}
           /\ ret'.op = "Network.connect") =>
          /\ ret'.res # "Connection"
          /\ ret'.io = "ok" => (ret'.res = "Ok" /\ net'.state = "Connected") ]_vars

\* C32: when end() fails because detaching an owned link fails, it returns
\* that link's error and the session is left Active, as before the call.
C32_FailedEndStaysActive ==
    [][ (ret'.op = "Session.end" /\ session.state = "Active" /\ ret'.res # "Ok") =>
          /\ ret'.res = "InvalidState"
          /\ session'.state = "Active" ]_vars

\* What was written to the stream as octets, in order: the wire without the
\* shutdowns of the stream.
OctetsWritten == SelectSeq(wire, LAMBDA w : w.what # "shutdown")

\* C33 as stated: the first thing written is the protocol header, the second
\* is the Open frame on channel 0, and the frames of send_frame and
\* send_message come after both.
C33_WireOrder ==
    LET w == OctetsWritten
    IN  /\ Len(w) >= 1 => w[1] = Written("header", 0)
        /\ Len(w) >= 2 => w[2] = Written("open", 0)
        /\ \A i \in DOMAIN w : w[i].what \in {"frame", "message"} => i > 2

\* C33, amended: the first thing written is the protocol header, an Open
\* frame is on channel 0 and follows a protocol header immediately, and every
\* frame of send_frame and send_message comes after a header and an Open; a
\* negotiate_protocol that failed after the header is followed by a second
\* header, not by the Open frame.
C33_HeaderOpenFirst ==
    LET w == OctetsWritten
    IN  /\ Len(w) >= 1 => w[1] = Written("header", 0)
        /\ \A i \in DOMAIN w :
             w[i].what = "open" => (w[i].channel = 0 /\ i > 1 /\ w[i - 1].what = "header")
        /\ \A i \in DOMAIN w :
             w[i].what \in {"frame", "message"} =>
               \E j \in 1..(i - 1) : w[j].what = "open"

\* A frame was written on a connection whose first negotiation failed after
\* the header.
C33_Witness ==
    /\ Len(OctetsWritten) >= 4
    /\ OctetsWritten[2].what = "header"
    /\ OctetsWritten[3].what = "open"
    /\ OctetsWritten[4].what \in {"frame", "message"}

(***************************************************************************)
(* transport::Transport: two ends of one TCP stream                        *)
(***************************************************************************)
\* header.size as usize, for sizes below 2^31.
SizeOf(header) == header.size[1] * U16 + header.size[2]

TransportOutcomes == {"ok", "failed"}

\* send_frame on the stream: write_all of Frame::encode, then flush.  The
\* result's obj is the stream after the call.
Transport_send_frame(stream, f, io) ==
    IF io = "failed"
    THEN Result(stream, "Transport", 0)
    ELSE Result(stream \o Frame_encode(f), "Ok", 0)

\* A plausible slip: the payload taken to be whatever the stream holds, as
\* Frame::decode does with a buffer.
Transport_receive_frame_WholeStream(stream, io) ==
    IF io = "failed" \/ Len(stream) < 8
    THEN [obj |-> <<>>, res |-> "Transport", val |-> 0, out |-> <<>>]
    ELSE LET header == FrameHeader_decode(SubSeq(stream, 1, 8))
         IN  [obj |-> <<>>, res |-> "Ok", val |-> 0,
              out |-> <<Frame_new(header.val, Drop(stream, 8))>>]

\* receive_frame on the octets the stream delivers before it ends or fails
\* (io = "failed"); out is the frame returned.  read_exact returns an error
\* when the stream ends before the octets asked for have arrived (always so
\* for a size of 2^31 or more), and the octets it read are lost.
Transport_receive_frame(stream, io) ==
    IF io = "failed" \/ Len(stream) < 8
    THEN [obj |-> <<>>, res |-> "Transport", val |-> 0, out |-> <<>>]
    ELSE LET header == FrameHeader_decode(SubSeq(stream, 1, 8))
             rest == Drop(stream, 8)
         IN  IF header.res # "Ok"
             THEN [obj |-> rest, res |-> header.res, val |-> 0, out |-> <<>>]
             ELSE IF header.val.size[1] >= U16 \div 2 \/ Len(rest) < SizeOf(header.val)
             THEN [obj |-> <<>>, res |-> "Transport", val |-> 0, out |-> <<>>]
             ELSE [obj |-> Drop(rest, SizeOf(header.val)), res |-> "Ok", val |-> 0,
                   out |-> <<Frame_new(header.val,
                                       SubSeq(rest, 1, SizeOf(header.val)))>>]

\* The frames given to send_frame: sizes that agree and that do not agree
\* with the payload, as in test_frame_new.
MaxSent == 2

TransportFrames ==
    {Frame_new(FrameHeader_new(<<0, size>>, 0, 258), payload) :
       size \in 0..MaxPayload, payload \in Payloads(MaxPayload)}

(***************************************************************************)
(* The sender at one end of the stream and the receiver at the other.  In  *)
(* this specification `frame` is the sequence of frames send_frame         *)
(* accepted, `bytes` the octets written and not yet read, and `parsed` the *)
(* sequence of frames receive_frame returned.                              *)
(***************************************************************************)
InitTransport ==
    /\ kind = "Transport"
    /\ InitObjects

\* A stream that failed once fails ever after: the two ends give it up.
StreamFailed == ret.res = "Transport"

TransportSendFrame ==
    /\ kind = "Transport" /\ ~StreamFailed
    /\ Len(frame) < MaxSent
    /\ \E f \in TransportFrames, io \in TransportOutcomes :
         LET r == Transport_send_frame(bytes, f, io)
         IN  /\ bytes' = r.obj
             /\ frame' = IF r.res = "Ok" THEN Append(frame, f) ELSE frame
             /\ ret' = CallIo("Transport.send_frame", r, io)
    /\ UNCHANGED <<kind, linkVars, sessionVars, connVars, netVars, codecVars, conditionVars,
                   parsed, peer>>

\* receive_frame returns once the octets it asks for have arrived, or the
\* stream has ended or failed.
TransportReceiveFrame ==
    /\ kind = "Transport" /\ ~StreamFailed
    /\ Len(parsed) < MaxSent
    /\ \E io \in TransportOutcomes :
         LET r == Transport_receive_frame(bytes, io)
         IN  /\ bytes' = r.obj
             /\ parsed' = parsed \o r.out
             /\ ret' = CallIo("Transport.receive_frame", r, io)
    /\ UNCHANGED <<kind, linkVars, sessionVars, connVars, netVars, codecVars, conditionVars,
                   frame, peer>>

NextTransport ==
    \/ TransportSendFrame
    \/ TransportReceiveFrame

SpecTransport == InitTransport /\ [][NextTransport]_vars

\* The k-th frame receive_frame returned is the k-th frame send_frame accepted.
InOrder(received, written) ==
    /\ Len(received) <= Len(written)
    /\ received[Len(received)] = written[Len(received)]

\* C34 as stated: whatever frames send_frame accepted, each receive_frame that
\* returns a frame returns the next frame written, header and payload.
C34_FrameFifo ==
    [][ (ret'.op = "Transport.receive_frame" /\ ret'.res = "Ok") =>
          InOrder(parsed', frame) ]_vars

\* C34, amended: when every frame send_frame accepted has a header.size equal
\* to the length of its payload, each receive_frame that returns a frame
\* returns the next frame written, header and payload, and when as many
\* frames were returned as written the stream is empty.
C34_FrameFifoSized ==
    [][ (ret'.op = "Transport.receive_frame" /\ ret'.res = "Ok"
           /\ \A i \in DOMAIN frame : SizeOf(frame[i].header) = Len(frame[i].payload)) =>
          /\ InOrder(parsed', frame)
          /\ Len(parsed') = Len(frame) => bytes' = <<>> ]_vars

\* Two different frames, the first with the longest payload, were written and
\* came back in order.
C34_Witness ==
    /\ ret.op = "Transport.receive_frame" /\ ret.res = "Ok"
    /\ Len(frame) = MaxSent
    /\ parsed = frame
    /\ frame[1] # frame[2]
    /\ Len(frame[1].payload) = MaxPayload
    /\ Len(frame[2].payload) = 1

\* C35: every session of the connection has a channel not greater than the
\* configured channel_max, and the channel counter stays within 16 bits.
C35_ChannelMax ==
    kind = "Connection" =>
      /\ \A channel \in DOMAIN conn.sessions : channel <= conn.config.channel_max
      /\ conn.next_channel < U16

\* C36: after any sequence of operations on a Receiver, delivery_count is the
\* number of messages still queued plus the number receive() has returned.
C36_CountIsQueuedPlusReturned ==
    kind = "Receiver" =>
      receiver.delivery_count = Len(receiver.message_queue) + Len(consumed)

\* Three messages arrived, two were returned by receive() and one is queued.
C36_Witness ==
    /\ kind = "Receiver"
    /\ Len(consumed) = 2
    /\ Len(receiver.message_queue) = 1
    /\ receiver.delivery_count = 3

(***************************************************************************)
(* The owners of resources together: one session, one connection or one    *)
(* network connection, each driven by its own caller.                      *)
(***************************************************************************)
InitOwners == InitSession \/ InitConnection \/ InitNetwork

NextOwners ==
    \/ NextSession
    \/ NextConnection
    \/ NextNetwork

SpecOwners == InitOwners /\ [][NextOwners]_vars

\* C37: in every reachable state an Ended session owns no links, a Closed
\* connection owns no sessions and no TCP stream, and a NetworkConnection
\* holds a transport exactly when its state is Connected or Ready.
C37_ReleasedAtTerminal ==
    /\ session.state = "Ended" => DOMAIN session.links = {}
    /\ conn.state = "Closed" => (DOMAIN conn.sessions = {} /\ ~conn.stream)
    /\ net.transport <=> net.state \in {"Connected", "Ready"}

\* A Ready network connection, which held a transport and a keep-alive task,
\* was disconnected and lost its stream's shutdown on the way.
C37_Witness ==
    /\ kind = "Network"
    /\ ret.op = "Network.disconnect"
    /\ ret.io = "shutdown_failed"
    /\ net.state = "Closing"
    /\ ~net.transport
    /\ Len(wire) >= 2

\* The other two owners at their terminal state after the closing call.
C37_SessionEnded ==
    kind = "Session" /\ ret.op = "Session.end" /\ ret.res = "Ok" /\ session.state = "Ended"

C37_ConnectionClosed ==
    kind = "Connection" /\ ret.op = "Connection.close" /\ ret.res = "Ok"
      /\ conn.state = "Closed" /\ ~conn.stream

\* C38: after any sequence of attach, detach, add_credit and send calls on a
\* Sender, credit is the sum of the add_credit amounts minus the number of
\* successful sends n, the pending deliveries have exactly the keys 1..n, and
\* next_delivery_id is n + 1.
C38_SenderConservation ==
    kind = "Sender" =>
      /\ sender.credit = credited - sent
      /\ DOMAIN sender.pending_deliveries = 1..sent
      /\ sender.next_delivery_id = sent + 1

\* Two sends succeeded out of three credits, and a send without credit and a
\* detach happened since.
C38_Witness ==
    /\ kind = "Sender"
    /\ sent = 2
    /\ credited = 3
    /\ sender.credit = 1
    /\ sender.link.state = "Detached"
    /\ ret.op = "Sender.send"
    /\ ret.res = "InvalidState"

\* C39: attach and detach change only the link state: a Sender's credit,
\* pending deliveries and next delivery id, and a Receiver's credit, queued
\* messages and delivery_count are unchanged by them; add_credit is accepted
\* in every link state and changes only credit.
C39_AttachDetachFrame ==
    [][ /\ ret'.op \in {"Link.attach", "Link.detach"} =>
             link' = [link EXCEPT !.state = link'.state]
        /\ ret'.op \in {"Sender.attach", "Sender.detach"} =>
             sender' = [sender EXCEPT !.link.state = sender'.link.state]
        /\ ret'.op \in {"Receiver.attach", "Receiver.detach"} =>
             receiver' = [receiver EXCEPT !.link.state = receiver'.link.state]
        /\ ret'.op = "Sender.add_credit" =>
             (ret'.res = "Ok" /\ sender' = [sender EXCEPT !.credit = sender'.credit])
        /\ ret'.op = "Receiver.add_credit" =>
             (ret'.res = "Ok" /\ receiver' = [receiver EXCEPT !.credit = receiver'.credit])
      ]_vars

\* A receiver attached again after a detach (it had returned a message, which
\* needs an attached link), still holding its credit and a queued message.
C39_Witness ==
    /\ kind = "Receiver"
    /\ ret.op = "Receiver.attach"
    /\ ret.res = "Ok"
    /\ consumed # <<>>
    /\ receiver.message_queue # <<>>
    /\ receiver.credit > 0

\* C40: the Link a session registers and the Session a connection registers
\* are copies independent of the Sender / Receiver / Session returned: no
\* operation on a returned object changes the registered one, every link
\* registered in a session is Detached and every session registered in a
\* connection is Closed in all reachable states.
C40_RegisteredDetached ==
    /\ \A h \in DOMAIN session.links : session.links[h].state = "Detached"
    /\ \A c \in DOMAIN conn.sessions : conn.sessions[c].state = "Closed"

C40_ReturnedIndependent ==
    [][ /\ ret'.op \in {"Endpoint.attach", "Endpoint.detach"} => session' = session
        /\ ret'.op \in {"Session.open", "Session.close"} => conn' = conn ]_vars

C40_IndependentCopies == []C40_RegisteredDetached /\ C40_ReturnedIndependent

\* A returned Sender or Receiver is Attached while the link registered for it
\* is still in the session.
C40_Witness ==
    /\ kind = "Session"
    /\ ret.op = "Endpoint.attach"
    /\ ret.res = "Ok"
    /\ \A i \in DOMAIN endpoints : endpoints[i].obj.link.state = "Attached"
    /\ Cardinality(DOMAIN session.links) = Len(endpoints)
    /\ Len(endpoints) >= 2

\* A returned Session is Open while its registered clone is in the connection.
C40_HandleOpen ==
    /\ kind = "Connection"
    /\ ret.op = "Session.open"
    /\ ret.res = "Ok"
    /\ \E i \in DOMAIN handles :
         /\ handles[i].state = "Open"
         /\ handles[i].channel \in DOMAIN conn.sessions

=============================================================================
